---------------------------- MODULE Spec2Model ----------------------------
(***************************************************************************)
(* A model of the bms_analytics repository: the Cloud Tasks campaign       *)
(* (app_scheduler.py, app_worker.py), the file-queue worker (worker.py,    *)
(* daily_scheduler.py) and the modules they call (parser, layout,          *)
(* analyzer, bq_client).                                                   *)
(*                                                                         *)
(* Conventions.  A date string "YYYYMMDD" is the integer YYYYMMDD; a time  *)
(* code "HHMM" is the integer HHMM; run_time "HH:MM" is the record         *)
(* [hh, mm] of the two fields split(":") yields.  A datetime is a record   *)
(* [date, min, off]: the civil date, the minute of that day and the UTC    *)
(* offset in minutes it is read at (a naive datetime carries off = 0,      *)
(* which is how timestamp_pb2.FromDatetime reads it).                      *)
(***************************************************************************)
EXTENDS Integers, Sequences, FiniteSets, TLC

VARIABLES
    clock,        \* index into ClockSeq: the wall clock (datetime.now)
    boots,        \* number of bootstrap requests POSTed to /process_day so far
    tasks,        \* the Cloud Tasks queue: every task ever created, in creation order
    bg,           \* BackgroundTasks of the scheduler service: run_logic calls not yet run
    runs,         \* one record per run_logic invocation that has run
    dispatches,   \* one record per /scrape_session invocation that has run
    sink,         \* rows accepted by BigQueryHandler.stream_data
    tmpFiles,     \* temporary screenshot files that exist
    queueFile,    \* master_queue.csv: the rows of the file, or <<>> when there is none
    workers,      \* one record per run of worker.process_tasks that has started
    pipelines,    \* one record per run of main.py or of worker_api's pipeline
    batchFiles,   \* the batch CSV files that exist
    pureCall,     \* a call of a function on its own: [fn, arg, returned, value]
    docShape      \* per city, the shape of the documents fetch_schedule returns

vars == <<clock, boots, tasks, bg, runs, dispatches, sink, tmpFiles, queueFile, workers,
          pipelines, batchFiles, pureCall, docShape>>

cloudVars == <<clock, boots, tasks, bg, runs, dispatches, sink, tmpFiles>>
fileVars  == <<queueFile, workers>>
batchVars == <<pipelines, batchFiles>>

\* no function is called on its own
NoCall == [fn |-> "none"]

-----------------------------------------------------------------------------
(* Bounds of the model *)

NumCities == 2        \* how many entries of CITY_CONFIG are configured
NumDays == 3          \* dates a bootstrap request may name
MaxBootstraps == 1    \* bootstrap requests per behaviour
MaxDeliveries == 2    \* deliveries of one task under at-least-once delivery
MaxRuns == 3          \* run_logic invocations per behaviour
NumQueueRows == 2     \* rows of master_queue.csv
MaxWorkerRuns == 2    \* runs of worker.py per behaviour

-----------------------------------------------------------------------------
(* Sequences *)

RECURSIVE FlattenFrom(_, _)
FlattenFrom(ss, i) == IF i > Len(ss) THEN <<>> ELSE ss[i] \o FlattenFrom(ss, i + 1)

\* the concatenation of a sequence of sequences
Flatten(ss) == FlattenFrom(ss, 1)

Range(s) == {s[i] : i \in 1..Len(s)}

RECURSIVE SelectIdx(_, _, _)
\* the indices i >= from of s, in order, with keep[i]
SelectIdx(keep, from, n) ==
    IF from > n THEN <<>>
    ELSE (IF keep[from] THEN <<from>> ELSE <<>>) \o SelectIdx(keep, from + 1, n)

RemoveAt(s, i) == SubSeq(s, 1, i - 1) \o SubSeq(s, i + 1, Len(s))

-----------------------------------------------------------------------------
(* Calendar: datetime.strptime("%Y%m%d"), strftime("%Y%m%d"), timedelta *)

MkDate(y, m, d) == y * 10000 + m * 100 + d
YearOf(s)  == s \div 10000
MonthOf(s) == (s \div 100) % 100
DayOf(s)   == s % 100

IsLeap(y) == (y % 4 = 0 /\ y % 100 # 0) \/ y % 400 = 0

DaysInMonth(y, m) ==
    IF m = 2 THEN (IF IsLeap(y) THEN 29 ELSE 28)
    ELSE IF m \in {4, 6, 9, 11} THEN 30 ELSE 31

\* strptime(s, "%Y%m%d") succeeds exactly on these; otherwise it raises ValueError
ValidDate(s) ==
    /\ s \in Nat
    /\ YearOf(s) \in 1..9999
    /\ MonthOf(s) \in 1..12
    /\ DayOf(s) \in 1..DaysInMonth(YearOf(s), MonthOf(s))

\* date + timedelta(days=1)
NextDay(s) ==
    LET y == YearOf(s)  m == MonthOf(s)  d == DayOf(s) IN
    IF d < DaysInMonth(y, m) THEN MkDate(y, m, d + 1)
    ELSE IF m < 12 THEN MkDate(y, m + 1, 1)
    ELSE MkDate(y + 1, 1, 1)

\* date - timedelta(days=1)
PrevDay(s) ==
    LET y == YearOf(s)  m == MonthOf(s)  d == DayOf(s) IN
    IF d > 1 THEN MkDate(y, m, d - 1)
    ELSE IF m > 1 THEN MkDate(y, m - 1, DaysInMonth(y, m - 1))
    ELSE MkDate(y - 1, 12, 31)

MinutesPerDay == 24 * 60

\* dt + timedelta(minutes=k), for -1440 < k < 1440; the offset is kept
AddMinutes(dt, k) ==
    LET m == dt.min + k IN
    IF m < 0 THEN [dt EXCEPT !.date = PrevDay(dt.date), !.min = m + MinutesPerDay]
    ELSE IF m >= MinutesPerDay
         THEN [dt EXCEPT !.date = NextDay(dt.date), !.min = m - MinutesPerDay]
    ELSE [dt EXCEPT !.min = m]

\* a faulty conversion that shifts the time of day and keeps the date
ToUTCSameDate(dt) ==
    [date |-> dt.date, min |-> (dt.min + MinutesPerDay - dt.off) % MinutesPerDay,
     off |-> 0]

\* dt.astimezone(utc)
ToUTC(dt) == [AddMinutes(dt, 0 - dt.off) EXCEPT !.off = 0]

\* a > b on datetimes: both are read in UTC; dates order as their YYYYMMDD numbers do
Later(a, b) ==
    LET ua == ToUTC(a)  ub == ToUTC(b) IN
    ua.date > ub.date \/ (ua.date = ub.date /\ ua.min > ub.min)


-----------------------------------------------------------------------------
(* Configuration *)

\* app_scheduler.CITY_CONFIG, in the order CITY_CONFIG.items() yields it
CITY_CONFIG ==
    << [city |-> "AHMEDABAD", code |-> "AHD",    slug |-> "ahd"],
       [city |-> "MUMBAI",    code |-> "MUMBAI", slug |-> "mumbai"],
       [city |-> "VADODARA",  code |-> "VADO",   slug |-> "vad"],
       [city |-> "SURAT",     code |-> "SURT",   slug |-> "surt"],
       [city |-> "RAJKOT",    code |-> "RAJK",   slug |-> "rajk"] >>

Cities == 1..NumCities

WORKER_URL == "WORKER_URL"
SCHEDULER_URL == "SCHEDULER_URL"

\* pytz.timezone('Asia/Kolkata'): UTC+05:30, no daylight saving
IstOffset == 5 * 60 + 30

\* timedelta(minutes=15) of the parser
LeadOffset == 15

-----------------------------------------------------------------------------
(* The world outside: the requests that arrive and the schedule the        *)
(* ticketing site serves                                                   *)

FirstDate == MkDate(2025, 12, 30)

RECURSIVE DateAt(_)
DateAt(k) == IF k = 0 THEN FirstDate ELSE NextDay(DateAt(k - 1))

CampaignDates == {DateAt(k) : k \in 0..(NumDays - 1)}

EventIds == {"ET00452447"}

\* run_time "06:00", as in trigger_campaign.py
RunTimes == {[hh |-> 6, mm |-> 0]}

\* CampaignRequest bodies that are POSTed to /process_day from outside
BootstrapRequests ==
    [event_id : EventIds, target_date : CampaignDates,
     end_date : CampaignDates, run_time : RunTimes]

\* The instants at which something runs: 06:00 and 13:00 UTC of each date
ClockMinutes == <<6 * 60, 13 * 60>>

ClockSeq ==
    Flatten([k \in 1..NumDays |->
        [j \in 1..Len(ClockMinutes) |->
            [date |-> DateAt(k - 1), min |-> ClockMinutes[j], off |-> 0]]])

Now == ClockSeq[clock]

\* showTimeCode of the shows the venue of the c-th city lists, in document order:
\* 18:45 and 00:10 local time in the first city, 00:10 in the others
ShowTimesOfCity(c) == IF c = 1 THEN <<1845, 10>> ELSE <<10>>

\* The document fetch_schedule returns for (event, city c, date): one groupList
\* widget holding one venueGroup holding the city's venue-card
FetchedDoc(event, c, date) ==
    [hasData |-> TRUE,
     showtimeWidgets |-> <<
       [type |-> "groupList", data |-> <<
          [type |-> "venueGroup", data |-> <<
             [type |-> "venue-card",
              venueCode |-> CITY_CONFIG[c].code,
              showtimes |->
                 [j \in 1..Len(ShowTimesOfCity(c)) |->
                    [sessionId |-> 10 * c + j,
                     showDateCode |-> date,
                     showTimeCode |-> ShowTimesOfCity(c)[j]]]]
          >>]
       >>]
     >>]

-----------------------------------------------------------------------------
(* modules/parser.py *)

\* the shapes of a document that holds no show: no data section, no widgets,
\* a widget, a group or a venue of another type, a venue without showtimes
EmptyDocKinds ==
    {"no_data", "no_widgets", "other_widget", "other_group", "other_venue",
     "no_showtimes"}

\* showTimeCode of a show at 09:00 local time: its trigger time, 08:45 local, is
\* 03:15 UTC
MorningShow == 9 * 100

\* The document fetch_schedule returns for (event, city c, date) when it is of
\* `kind` ("morning": the city's venue lists one show, at MorningShow): "schedule" is the city's schedule, the others are that schedule
\* brought into one of the shapes of EmptyDocKinds
DocOfKind(kind, event, c, date) ==
    LET doc   == FetchedDoc(event, c, date)
        venue == doc.showtimeWidgets[1].data[1].data[1]
        with(tw, tg, v) ==
            [hasData |-> TRUE,
             showtimeWidgets |-> << [type |-> tw, data |-> <<
                                       [type |-> tg, data |-> << v >>] >>] >>]
    IN CASE kind = "schedule" -> doc
         [] kind = "no_data" -> [hasData |-> FALSE, showtimeWidgets |-> <<>>]
         [] kind = "no_widgets" -> [hasData |-> TRUE, showtimeWidgets |-> <<>>]
         [] kind = "other_widget" -> with("other", "venueGroup", venue)
         [] kind = "other_group" -> with("groupList", "other", venue)
         [] kind = "other_venue" ->
               with("groupList", "venueGroup", [venue EXCEPT !.type = "other"])
         [] kind = "no_showtimes" ->
               with("groupList", "venueGroup", [venue EXCEPT !.showtimes = <<>>])
         [] kind = "morning" ->
               with("groupList", "venueGroup",
                    [venue EXCEPT !.showtimes =
                        << [sessionId |-> 10 * c + 1, showDateCode |-> date,
                            showTimeCode |-> MorningShow] >>])

\* every city's documents are its schedule
AllSchedules == [c \in Cities |-> "schedule"]

\* "%H%M" parses exactly these time codes
ValidTimeCode(t) == t \in Nat /\ t \div 100 \in 0..23 /\ t % 100 \in 0..59

\* line 54: datetime.strptime(f"{date} {time}", "%Y%m%d %H%M"), a naive datetime
Strptime(date_code, time_code) ==
    [date |-> date_code, min |-> (time_code \div 100) * 60 + (time_code % 100)]

\* line 57: ist_zone.localize(naive_dt); Asia/Kolkata is UTC+05:30 all year
Localize(naive_dt) == [date |-> naive_dt.date, min |-> naive_dt.min, off |-> IstOffset]

\* a faulty line 60 that adds the lead
TriggerAfterShow(ist_dt) == AddMinutes(ist_dt, LeadOffset)

\* line 60: trigger_ist = ist_dt - timedelta(minutes=15)
TriggerLocal(ist_dt) == AddMinutes(ist_dt, 0 - LeadOffset)

\* the rows one showtime leaf yields: one row, or none when the leaf is skipped
ParseShow(show, venue_code, event_code, region_code) ==
    IF show.showDateCode = -1 \/ show.showTimeCode = -1 THEN <<>>
    ELSE IF ~(ValidDate(show.showDateCode) /\ ValidTimeCode(show.showTimeCode)) THEN <<>>
    ELSE
      LET naive_dt    == Strptime(show.showDateCode, show.showTimeCode)
          ist_dt      == Localize(naive_dt)
          trigger_ist == TriggerLocal(ist_dt)
          trigger_utc == ToUTC(trigger_ist)
      IN << [EventId            |-> event_code,
             VenueCode          |-> venue_code,
             SessionId          |-> show.sessionId,
             ShowDate           |-> show.showDateCode,
             ShowDateTime       |-> ist_dt,
             ScrapeTriggerTime  |-> trigger_ist,
             Trigger_Object_UTC |-> trigger_utc,
             TicketLink         |-> <<region_code, event_code, venue_code,
                                      show.sessionId, show.showDateCode>>,
             Status             |-> "PENDING"] >>

RECURSIVE ValidPrefix(_, _)
\* how many leaves of showtimes, from the i-th on, come before the first one that
\* yields no row
ValidPrefix(showtimes, i) ==
    IF i > Len(showtimes) THEN 0
    ELSE IF ParseShow(showtimes[i], "v", "e", "r") = <<>> THEN 0
    ELSE 1 + ValidPrefix(showtimes, i + 1)

\* a faulty line 34 that takes every venue for a venue-card
ParseVenueOfAnyType(venue, event_code, region_code) ==
    Flatten([j \in 1..Len(venue.showtimes) |->
        ParseShow(venue.showtimes[j], venue.venueCode, event_code, region_code)])

\* a faulty loop over the showtimes that a leaf without a row ends
ParseVenueUntilInvalid(venue, event_code, region_code) ==
    IF venue.type # "venue-card" THEN <<>>
    ELSE Flatten([j \in 1..ValidPrefix(venue.showtimes, 1) |->
            ParseShow(venue.showtimes[j], venue.venueCode, event_code, region_code)])

\* lines 34-85: the rows of one venue; a leaf that yields no row is passed over
\* (continue at lines 50 and 85)
ParseVenue(venue, event_code, region_code) ==
    IF venue.type # "venue-card" THEN <<>>
    ELSE Flatten([j \in 1..Len(venue.showtimes) |->
            ParseShow(venue.showtimes[j], venue.venueCode, event_code, region_code)])

\* a faulty loop over the venues of a group that takes the last venue first
ParseGroupLastVenueFirst(group, event_code, region_code) ==
    IF group.type # "venueGroup" THEN <<>>
    ELSE Flatten([j \in 1..Len(group.data) |->
            ParseVenue(group.data[Len(group.data) + 1 - j], event_code, region_code)])

\* lines 30-32: the venues of a venueGroup, in order
ParseGroup(group, event_code, region_code) ==
    IF group.type # "venueGroup" THEN <<>>
    ELSE Flatten([j \in 1..Len(group.data) |->
            ParseVenue(group.data[j], event_code, region_code)])

ParseWidget(widget, event_code, region_code) ==
    IF widget.type # "groupList" THEN <<>>
    ELSE Flatten([j \in 1..Len(widget.data) |->
            ParseGroup(widget.data[j], event_code, region_code)])

\* the rows of the DataFrame, in order
parse_schedule_to_df(json_data, event_code, region_code) ==
    IF ~json_data.hasData THEN <<>>
    ELSE Flatten([j \in 1..Len(json_data.showtimeWidgets) |->
            ParseWidget(json_data.showtimeWidgets[j], event_code, region_code)])

-----------------------------------------------------------------------------
(* app_scheduler.py *)

\* row.to_dict() without Trigger_Object_UTC, with City added (lines 90-94)
CapturePayload(row, c) ==
    [EventId           |-> row.EventId,
     VenueCode         |-> row.VenueCode,
     SessionId         |-> row.SessionId,
     ShowDate          |-> row.ShowDate,
     ShowDateTime      |-> row.ShowDateTime,
     ScrapeTriggerTime |-> row.ScrapeTriggerTime,
     TicketLink        |-> row.TicketLink,
     Status            |-> row.Status,
     City              |-> CITY_CONFIG[c].city]

\* a faulty line 83 that leaves the loop over the cities at the first failed
\* fetch (break for continue)
RowsUntilFailedFetch(req, fetched, c) ==
    IF \A b \in 1..c : fetched[b]
    THEN parse_schedule_to_df(FetchedDoc(req.event_id, c, req.target_date),
                              req.event_id, CITY_CONFIG[c].slug)
    ELSE <<>>

\* lines 82-85, the rows parsed for city c: none when fetch_schedule returned
\* None (a non-200 response or a network error, scraper.py lines 40-48), and
\* the loop goes on with the next city
RowsOfCity(req, fetched, c) ==
    IF fetched[c]
    THEN parse_schedule_to_df(DocOfKind(docShape[c], req.event_id, c, req.target_date),
                              req.event_id, CITY_CONFIG[c].slug)
    ELSE <<>>

\* a faulty line 89 that compares with >=: a row whose trigger time is the
\* current time also gets a task
TriggerIsNotPast(trigger_utc, now) == ~Later(now, trigger_utc)

\* line 89: is a task created for this row
TriggerIsFuture(trigger_utc, now) == Later(trigger_utc, now)

\* the create_task calls of step 1 for city c, in order
CaptureCallsOfCity(req, fetched, c, now) ==
    LET rows == RowsOfCity(req, fetched, c) IN
    Flatten([j \in 1..Len(rows) |->
        IF TriggerIsFuture(rows[j].Trigger_Object_UTC, now)
        THEN << [url |-> WORKER_URL, payload |-> CapturePayload(rows[j], c),
                 at |-> rows[j].Trigger_Object_UTC, city |-> c] >>
        ELSE <<>>])

\* a faulty loop that stops after the first city whose schedule was fetched
CaptureCallsOfFirstFetched(req, fetched, now) ==
    Flatten([c \in 1..NumCities |->
                IF \E b \in 1..(c - 1) : fetched[b] THEN <<>>
                ELSE CaptureCallsOfCity(req, fetched, c, now)])

\* lines 81-95: the create_task calls of step 1, city after city in the order
\* of CITY_CONFIG
CaptureCalls(req, fetched, now) ==
    Flatten([c \in 1..NumCities |-> CaptureCallsOfCity(req, fetched, c, now)])

\* a faulty line 102 that takes the next date from the wall clock
NextTargetDateFromClock(req, now) == NextDay(now.date)

\* line 102: the target_date of the forwarded cursor
NextTargetDate(req, now) == NextDay(req.target_date)

\* faulty lines 103-106 that schedule the self-invocation for the day after the
\* wall clock's date
NextRunTimeFromClock(req, now) ==
    [date |-> NextDay(now.date),
     min  |-> req.run_time.hh * 60 + req.run_time.mm,
     off  |-> 0]

\* lines 103-106: the naive datetime the self-invocation is scheduled at
NextRunTime(req, now) ==
    [date |-> NextDay(req.target_date),
     min  |-> req.run_time.hh * 60 + req.run_time.mm,
     off  |-> 0]

\* a faulty line 101 that compares with <=
MoreDaysRemainInclusive(req) == req.target_date <= req.end_date

\* line 101
MoreDaysRemain(req) == req.target_date < req.end_date

\* the create_task calls of step 2 (lines 101-109)
SelfCalls(req, now) ==
    IF MoreDaysRemain(req)
    THEN << [url |-> SCHEDULER_URL,
             payload |-> [req EXCEPT !.target_date = NextTargetDate(req, now)],
             at |-> NextRunTime(req, now), city |-> 0] >>
    ELSE <<>>

\* does step 2 raise before it creates a task: strptime on a malformed date,
\* datetime.replace on an hour or minute out of range
Step2Raises(req) ==
    \/ ~ValidDate(req.target_date)
    \/ ~ValidDate(req.end_date)
    \/ /\ MoreDaysRemain(req)
       /\ ~(req.run_time.hh \in 0..23 /\ req.run_time.mm \in 0..59)

\* the task create_task puts on the queue for one call
NewTask(call, run, chain) ==
    [url |-> call.url, payload |-> call.payload, at |-> call.at,
     by |-> run, chain |-> chain, deliveries |-> 0]

\* a faulty service that runs run_logic before it answers and reports how the
\* work ended
ResponseReflectsWork(sent, outcome) ==
    IF outcome = "raised" THEN [status |-> "error"] ELSE sent

\* lines 114-115: run_logic is a background task, which the framework runs after
\* the response `sent` has gone out: however the work ends, the caller's response
\* is the one sent at acceptance
ResponseAfterWork(sent, outcome) == sent

\* the request handler of /process_day: queue run_logic, answer {"status": "ok"}
endpoint(req, chain, task) ==
    bg' = Append(bg, [req |-> req, chain |-> chain, task |-> task,
                      response |-> [status |-> "ok"]])

\* a campaign is started from outside (trigger_campaign.py)
Bootstrap ==
    /\ boots < MaxBootstraps
    /\ \E req \in BootstrapRequests : endpoint(req, boots + 1, 0)
    /\ boots' = boots + 1
    /\ UNCHANGED <<clock, tasks, runs, dispatches, sink, tmpFiles, fileVars, batchVars, pureCall, docShape>>

Due(t) == ~Later(t.at, Now)

\* Cloud Tasks delivers a scheduler task to SCHEDULER_URL, at or after its time
DeliverSched ==
    \E i \in 1..Len(tasks) :
        /\ tasks[i].url = SCHEDULER_URL
        /\ tasks[i].deliveries = 0
        /\ Due(tasks[i])
        /\ Len(runs) + Len(bg) < MaxRuns
        /\ endpoint(tasks[i].payload, tasks[i].chain, i)
        /\ tasks' = [tasks EXCEPT ![i].deliveries = 1]
        /\ UNCHANGED <<clock, boots, runs, dispatches, sink, tmpFiles, fileVars, batchVars, pureCall, docShape>>

\* the create_task calls run_logic makes, in order, when none of them raises
RunLogicCalls(req, fetched, now) ==
    IF Step2Raises(req) THEN CaptureCalls(req, fetched, now)
    ELSE CaptureCalls(req, fetched, now) \o SelfCalls(req, now)

\* run_logic on the i-th queued request when Cloud Tasks accepts the first n of
\* its create_task calls: the (n + 1)-th, if there is one, raises and ends the
\* invocation.  fetched[c]: fetch_schedule returned a document for city c
RunLogicRun(i, fetched, calls, n) ==
    /\ tasks' = tasks \o [k \in 1..n |->
                            NewTask(calls[k], Len(runs) + 1, bg[i].chain)]
    /\ runs' = Append(runs,
          [req |-> bg[i].req, chain |-> bg[i].chain, task |-> bg[i].task,
           at |-> clock, fetched |-> fetched,
           parsed |-> Flatten([c \in 1..NumCities |->
                                  RowsOfCity(bg[i].req, fetched, c)]),
           enqueued |-> n, failed |-> n < Len(calls),
           outcome |-> IF n < Len(calls) \/ Step2Raises(bg[i].req)
                       THEN "raised" ELSE "returned",
           response |-> ResponseAfterWork(bg[i].response,
                           IF n < Len(calls) \/ Step2Raises(bg[i].req)
                           THEN "raised" ELSE "returned")])
    /\ bg' = RemoveAt(bg, i)
    /\ UNCHANGED <<clock, boots, dispatches, sink, tmpFiles, fileVars, batchVars, pureCall, docShape>>

\* one run_logic invocation in which every create_task call is accepted
RunLogic ==
    \E i \in 1..Len(bg), fetched \in [Cities -> BOOLEAN] :
      \E calls \in {RunLogicCalls(bg[i].req, fetched, Now)} :
        RunLogicRun(i, fetched, calls, Len(calls))

\* one run_logic invocation in which Cloud Tasks refuses a create_task call: the
\* call raises, and nothing in run_logic catches it
RunLogicEnqueueFails ==
    \E i \in 1..Len(bg), fetched \in [Cities -> BOOLEAN] :
      \E calls \in {RunLogicCalls(bg[i].req, fetched, Now)} :
        \E n \in 0..(Len(calls) - 1) :
          RunLogicRun(i, fetched, calls, n)

-----------------------------------------------------------------------------
(* modules/analyzer.py.  An image file is [decodable, contours]; a contour  *)
(* is [area, w, h, green, yellow]: cv2.contourArea, the bounding box and    *)
(* the pixels of its box inside the green and the yellow HSV band           *)

\* line 43
SeatLike(cnt) ==
    /\ cnt.area > 150 /\ cnt.area < 3000
    /\ 7 * cnt.h < 10 * cnt.w /\ 10 * cnt.w < 14 * cnt.h

\* faulty lines 55-56 that let yellow win a tie with green
SeatClassYellowOnTie(cnt) ==
    IF cnt.yellow > 10 /\ cnt.yellow >= cnt.green THEN "bestseller"
    ELSE IF cnt.green > 10 THEN "available"
    ELSE "filled_sold"

\* lines 53-63: pixel_threshold = 10
SeatClass(cnt) ==
    IF cnt.yellow > 10 /\ cnt.yellow > cnt.green THEN "bestseller"
    ELSE IF cnt.green > 10 THEN "available"
    ELSE "filled_sold"

CountClass(contours, class) ==
    Cardinality({j \in 1..Len(contours) :
                    SeatLike(contours[j]) /\ SeatClass(contours[j]) = class})

\* the value analyze_seats returns: <<>> for None, else << stats >>
analyze_seats(image, processed_image_output_path) ==
    IF ~image.decodable THEN <<>>
    ELSE << [total_seats  |-> Cardinality({j \in 1..Len(image.contours) :
                                              SeatLike(image.contours[j])}),
             filled_sold  |-> CountClass(image.contours, "filled_sold"),
             available    |-> CountClass(image.contours, "available"),
             bestseller   |-> CountClass(image.contours, "bestseller"),
             total_unsold |-> CountClass(image.contours, "available")
                              + CountClass(image.contours, "bestseller"),
             processed_image_path |-> processed_image_output_path] >>

\* the counters of lines 26-29
ZeroCounts ==
    [total_seats |-> 0, filled_sold |-> 0, unsold_available |-> 0,
     unsold_bestseller |-> 0]

\* a faulty analyzer whose counters live on between calls
StartCountsCarried(previous) == previous

\* lines 26-29: the counters are local names bound to 0 in every call; previous
\* is where the call before left its counters
StartCounts(previous) == ZeroCounts

\* faulty lines 55-63 with `if` for `elif`: a bestseller seat with more than 10
\* green pixels is also counted as available
CountContourTwice(counts, cnt) ==
    IF ~SeatLike(cnt) THEN counts
    ELSE [counts EXCEPT
            !.total_seats = @ + 1,
            !.unsold_bestseller = @ + (IF cnt.yellow > 10 /\ cnt.yellow > cnt.green
                                       THEN 1 ELSE 0),
            !.unsold_available = @ + (IF cnt.green > 10 THEN 1 ELSE 0),
            !.filled_sold = @ + (IF cnt.green > 10 \/ (cnt.yellow > 10
                                                       /\ cnt.yellow > cnt.green)
                                 THEN 0 ELSE 1)]

\* lines 37-63: one pass of the loop over the contours
CountContour(counts, cnt) ==
    IF ~SeatLike(cnt) THEN counts
    ELSE [counts EXCEPT
            !.total_seats = @ + 1,
            !.unsold_bestseller = @ + (IF SeatClass(cnt) = "bestseller" THEN 1 ELSE 0),
            !.unsold_available = @ + (IF SeatClass(cnt) = "available" THEN 1 ELSE 0),
            !.filled_sold = @ + (IF SeatClass(cnt) = "filled_sold" THEN 1 ELSE 0)]

\* a faulty line 73 that reports the available seats as the unsold ones
StatsUnsoldAvailable(counts, processed_image_output_path) ==
    [total_seats  |-> counts.total_seats,
     filled_sold  |-> counts.filled_sold,
     available    |-> counts.unsold_available,
     bestseller   |-> counts.unsold_bestseller,
     total_unsold |-> counts.unsold_available,
     processed_image_path |-> processed_image_output_path]

\* lines 68-75: the dictionary returned
Stats(counts, processed_image_output_path) ==
    [total_seats  |-> counts.total_seats,
     filled_sold  |-> counts.filled_sold,
     available    |-> counts.unsold_available,
     bestseller   |-> counts.unsold_bestseller,
     total_unsold |-> counts.unsold_available + counts.unsold_bestseller,
     processed_image_path |-> processed_image_output_path]

\* a call analyzer.analyze_seats(*args): Python raises TypeError unless both
\* positional parameters of the definition (line 6) are given
CallAnalyzeSeats(args) ==
    IF Len(args) # 2 THEN [raised |-> TRUE, value |-> <<>>]
    ELSE [raised |-> FALSE, value |-> analyze_seats(args[1], args[2])]

\* what a screenshot file may hold
NoImage == [decodable |-> FALSE, contours |-> <<>>]

SeatMap ==
    [decodable |-> TRUE,
     contours |-> << [area |-> 400, w |-> 20, h |-> 20, green |-> 0,   yellow |-> 0],
                     [area |-> 400, w |-> 20, h |-> 20, green |-> 300, yellow |-> 0],
                     [area |-> 400, w |-> 20, h |-> 20, green |-> 0,   yellow |-> 300],
                     [area |-> 100, w |-> 10, h |-> 10, green |-> 90,  yellow |-> 0] >>]

Screenshots == {NoImage, SeatMap}

\* contours around the bounds of line 43 and the threshold of lines 53-58.
\* By area: cv2.contourArea 149 .. 151 and 2999 .. 3001, and a 50 x 60 box
\* whose contour fills it
AreaContours ==
    {[area |-> a, w |-> 20, h |-> 20, green |-> 0, yellow |-> 0] :
        a \in {149, 150, 151, 2999, 3000, 3001}}
    \cup {[area |-> 3000, w |-> 50, h |-> 60, green |-> 0, yellow |-> 0]}

\* by aspect ratio w / h: 0.7, 0.75, 1.35, 1.4
RatioContours ==
    {[area |-> 200, w |-> w, h |-> 20, green |-> 0, yellow |-> 0] :
        w \in {14, 15, 27, 28}}

\* by colour: green and yellow pixel counts around pixel_threshold
ColourContours ==
    {[area |-> 400, w |-> 20, h |-> 20, green |-> g, yellow |-> y] :
        g \in {0, 10, 11, 12}, y \in {0, 10, 11, 12}}

\* a seat map with 25 sold, 10 available and 5 bestseller seats, and two
\* contours that are no seats
SeatMap40 ==
    [decodable |-> TRUE,
     contours |->
        [k \in 1..42 |->
            IF k <= 25 THEN [area |-> 400, w |-> 20, h |-> 20, green |-> 0, yellow |-> 0]
            ELSE IF k <= 25 + 10
                 THEN [area |-> 400, w |-> 20, h |-> 20, green |-> 300, yellow |-> 0]
            ELSE IF k <= 25 + 10 + 5
                 THEN [area |-> 400, w |-> 20, h |-> 20, green |-> 0, yellow |-> 300]
            ELSE [area |-> 100, w |-> 10, h |-> 10, green |-> 90, yellow |-> 0]]]

\* the images analyze_seats is called on: no image, the seat maps, and one image
\* per contour above
Images ==
    {NoImage, SeatMap, SeatMap40}
    \cup {[decodable |-> TRUE, contours |-> << cnt >>] :
             cnt \in AreaContours \cup RatioContours \cup ColourContours}

MaxCalls == 2         \* calls of analyze_seats per behaviour

InitAnalyze ==
    /\ clock = 1
    /\ boots = 0
    /\ tasks = <<>>
    /\ bg = <<>>
    /\ runs = <<>>
    /\ dispatches = {}
    /\ sink = <<>>
    /\ tmpFiles = {}
    /\ queueFile = <<>>
    /\ workers = <<>>
    /\ pipelines = <<>>
    /\ batchFiles = {}
    /\ pureCall = [fn |-> "analyze_seats", history |-> <<>>, running |-> FALSE,
                    image |-> NoImage, pos |-> 0, counts |-> ZeroCounts]
    /\ docShape = [c \in 1..NumCities |-> "schedule"]

\* the counters the last call that counted ended with
LastCounts ==
    IF pureCall.history = <<>> THEN ZeroCounts
    ELSE pureCall.history[Len(pureCall.history)].counts

\* lines 11-29: a call starts; it returns None at once when the image cannot be
\* read
AnalyzeStart ==
    /\ pureCall.fn = "analyze_seats"
    /\ ~pureCall.running
    /\ Len(pureCall.history) < MaxCalls
    /\ \E image \in Images :
          pureCall' =
             IF ~image.decodable
             THEN [pureCall EXCEPT !.history =
                     Append(@, [image |-> image, value |-> <<>>, counts |-> LastCounts])]
             ELSE [pureCall EXCEPT !.running = TRUE, !.image = image, !.pos = 0,
                                   !.counts = StartCounts(LastCounts)]
    /\ UNCHANGED <<cloudVars, fileVars, batchVars, docShape>>

\* lines 37-63: the loop takes the next contour
AnalyzeContour ==
    /\ pureCall.fn = "analyze_seats"
    /\ pureCall.running
    /\ pureCall.pos < Len(pureCall.image.contours)
    /\ pureCall' = [pureCall EXCEPT
          !.pos = @ + 1,
          !.counts = CountContour(@, pureCall.image.contours[pureCall.pos + 1])]
    /\ UNCHANGED <<cloudVars, fileVars, batchVars, docShape>>

\* lines 66-75: the loop is over, the call returns its dictionary
AnalyzeReturn ==
    /\ pureCall.fn = "analyze_seats"
    /\ pureCall.running
    /\ pureCall.pos = Len(pureCall.image.contours)
    /\ pureCall' = [pureCall EXCEPT
          !.running = FALSE, !.image = NoImage, !.pos = 0, !.counts = ZeroCounts,
          !.history = Append(@, [image |-> pureCall.image,
                                 value |-> << Stats(pureCall.counts, "processed") >>,
                                 counts |-> pureCall.counts])]
    /\ UNCHANGED <<cloudVars, fileVars, batchVars, docShape>>

NextAnalyze ==
    \/ AnalyzeStart
    \/ AnalyzeContour
    \/ AnalyzeReturn

SpecAnalyze == InitAnalyze /\ [][NextAnalyze]_vars

-----------------------------------------------------------------------------
(* app_worker.py: the /scrape_session handler *)

\* what `await layout.capture_seat_layout(url, path)` does: returns True with the
\* screenshot saved, returns False (the except of lines 57-59), or raises (the
\* browser launch of lines 13-19 is outside the try)
CaptureOutcomes == {"True", "False", "raised"}

\* what bq.stream_data does with the row: inserts it, drops it (no client, or
\* insert_rows_json reports errors), or raises
SinkOutcomes == {"inserted", "dropped", "raised"}

\* the file tempfile.NamedTemporaryFile(suffix=".png", delete=False) creates for
\* show k of run `run` of program `by`: it stays on disk until it is removed
NamedTemporaryFile(by, run, k) == [by |-> by, run |-> run, show |-> k]

\* app_worker.py lines 30-31: the finally clause of the handler's try runs on
\* every way out of lines 21-29, and the file exists, so os.remove runs
FinallyRemoves == TRUE

\* app_worker.py lines 25-29, entered with the dictionary `stats` of the
\* analyzer: the record is completed and handed to bq.stream_data, which returns
\* None whether it inserted the row, had no client (bq_client.py line 151) or
\* got errors from insert_rows_json (lines 168-171); then the handler answers
\* success
StreamAndAnswer(data, stats, sinkDoes) ==
    LET row == [show |-> data, stats |-> stats, Status |-> "COMPLETED"] IN
    [outcome  |-> IF sinkDoes = "raised" THEN "raised" ELSE "success",
     Status   |-> "COMPLETED",
     analyzed |-> TRUE,
     stats    |-> << stats >>,
     streamed |-> << row >>,
     stored   |-> IF sinkDoes = "inserted" THEN << row >> ELSE <<>>,
     removed  |-> FinallyRemoves]

\* lines 20-33 on the request body `data`: capture is the outcome of the capture
\* call, image what the screenshot file then holds, sinkDoes what the sink does
\* if it is called.  outcome: the response ("success", "failed") or "raised" when
\* an exception leaves the handler; analyzed: analyzer.analyze_seats was called;
\* streamed: the rows handed to bq.stream_data; stored: the rows the sink keeps;
\* removed: the temporary file was removed before the handler ended
ScrapeResult(data, capture, image, sinkDoes) ==
    LET base == [outcome |-> "failed", Status |-> data.Status, analyzed |-> FALSE,
                 stats |-> <<>>, streamed |-> <<>>, stored |-> <<>>,
                 removed |-> FinallyRemoves]
    IN
    IF capture = "raised" THEN [base EXCEPT !.outcome = "raised"]
    ELSE IF capture = "False" THEN base
    ELSE
      LET call == CallAnalyzeSeats(<< image >>) IN
      IF call.raised THEN [base EXCEPT !.outcome = "raised", !.analyzed = TRUE]
      ELSE IF call.value = <<>> THEN [base EXCEPT !.analyzed = TRUE]
      ELSE StreamAndAnswer(data, call.value[1], sinkDoes)

\* one /scrape_session invocation on the delivery of capture task i
ScrapeTask(i) ==
    \E capture \in CaptureOutcomes :
     \E image \in (IF capture = "True" THEN Screenshots ELSE {NoImage}) :
      \E sinkDoes \in (IF capture = "True" THEN SinkOutcomes ELSE {"dropped"}) :
       \E r \in {ScrapeResult(tasks[i].payload, capture, image, sinkDoes)} :
        /\ dispatches' = dispatches \cup
              {[by |-> "app_worker", task |-> i, attempt |-> tasks[i].deliveries + 1,
                show |-> <<tasks[i].payload.EventId, tasks[i].payload.SessionId,
                           tasks[i].payload.ShowDate>>,
                capture |-> capture,
                decodable |-> capture = "True" /\ image.decodable,
                outcome |-> r.outcome, Status |-> r.Status,
                analyzed |-> r.analyzed, stats |-> r.stats, streamed |-> r.streamed]}
        /\ sink' = sink \o r.stored
        /\ tmpFiles' = (tmpFiles \cup {NamedTemporaryFile("app_worker", i, tasks[i].deliveries + 1)})
                           \ (IF r.removed
                               THEN {NamedTemporaryFile("app_worker", i, tasks[i].deliveries + 1)}
                               ELSE {})
        /\ tasks' = [tasks EXCEPT ![i].deliveries = @ + 1]
        /\ UNCHANGED <<clock, boots, bg, runs, fileVars, batchVars, pureCall, docShape>>

\* Cloud Tasks delivers a capture task to WORKER_URL, at or after its time
Scrape ==
    \E i \in 1..Len(tasks) :
        /\ tasks[i].url = WORKER_URL
        /\ tasks[i].deliveries = 0
        /\ Due(tasks[i])
        /\ ScrapeTask(i)

\* time passes
Tick ==
    /\ clock < Len(ClockSeq)
    /\ clock' = clock + 1
    /\ UNCHANGED <<boots, tasks, bg, runs, dispatches, sink, tmpFiles, fileVars, batchVars, pureCall, docShape>>

-----------------------------------------------------------------------------
(* The campaign on Cloud Tasks: every task is delivered once, every          *)
(* create_task call is accepted                                              *)

Init ==
    /\ clock = 1
    /\ boots = 0
    /\ tasks = <<>>
    /\ bg = <<>>
    /\ runs = <<>>
    /\ dispatches = {}
    /\ sink = <<>>
    /\ tmpFiles = {}
    /\ queueFile = <<>>
    /\ workers = <<>>
    /\ pipelines = <<>>
    /\ batchFiles = {}
    /\ pureCall = NoCall
    /\ docShape = AllSchedules

Next ==
    \/ Bootstrap
    \/ DeliverSched
    \/ RunLogic
    \/ Scrape
    \/ Tick

Spec == Init /\ [][Next]_vars

\* Cloud Tasks delivers every due scheduler task, FastAPI runs every queued
\* background task, and time passes
FairSpec ==
    Spec /\ WF_vars(DeliverSched) /\ WF_vars(RunLogic) /\ WF_vars(Tick)

-----------------------------------------------------------------------------
(* The campaign when Cloud Tasks delivers a scheduler task more than once    *)
(* (its delivery is at-least-once)                                           *)

\* a scheduler task that was delivered is delivered again
RedeliverSched ==
    \E i \in 1..Len(tasks) :
        /\ tasks[i].url = SCHEDULER_URL
        /\ tasks[i].deliveries \in 1..(MaxDeliveries - 1)
        /\ Len(runs) + Len(bg) < MaxRuns
        /\ endpoint(tasks[i].payload, tasks[i].chain, i)
        /\ tasks' = [tasks EXCEPT ![i].deliveries = @ + 1]
        /\ UNCHANGED <<clock, boots, runs, dispatches, sink, tmpFiles, fileVars, batchVars, pureCall, docShape>>

\* the scheduler service alone, when the documents of one city hold no show
InitDocs ==
    /\ clock = 1
    /\ boots = 0
    /\ tasks = <<>>
    /\ bg = <<>>
    /\ runs = <<>>
    /\ dispatches = {}
    /\ sink = <<>>
    /\ tmpFiles = {}
    /\ queueFile = <<>>
    /\ workers = <<>>
    /\ pipelines = <<>>
    /\ batchFiles = {}
    /\ pureCall = NoCall
    /\ docShape \in {[AllSchedules EXCEPT ![c] = kind] :
                         c \in Cities, kind \in EmptyDocKinds}

NextDocs ==
    \/ Bootstrap
    \/ DeliverSched
    \/ RunLogic
    \/ Tick

SpecDocs == InitDocs /\ [][NextDocs]_vars

\* campaigns over cities of which at least one lists a morning show
InitMorning ==
    /\ clock = 1
    /\ boots = 0
    /\ tasks = <<>>
    /\ bg = <<>>
    /\ runs = <<>>
    /\ dispatches = {}
    /\ sink = <<>>
    /\ tmpFiles = {}
    /\ queueFile = <<>>
    /\ workers = <<>>
    /\ pipelines = <<>>
    /\ batchFiles = {}
    /\ pureCall = NoCall
    /\ docShape \in {[AllSchedules EXCEPT ![c] = "morning"] : c \in Cities}

SpecMorning == InitMorning /\ [][NextDocs]_vars

\* the scheduler service alone, when Cloud Tasks may refuse a create_task call
NextEnqueue ==
    \/ Bootstrap
    \/ DeliverSched
    \/ RunLogic
    \/ RunLogicEnqueueFails
    \/ Tick

SpecEnqueue == Init /\ [][NextEnqueue]_vars

NextAtLeastOnce ==
    \/ Next
    \/ RedeliverSched

SpecAtLeastOnce == Init /\ [][NextAtLeastOnce]_vars

-----------------------------------------------------------------------------
(* The campaign when Cloud Tasks retries a capture task: a /scrape_session   *)
(* invocation that an exception leaves is answered with HTTP 500, and Cloud  *)
(* Tasks delivers a task again when its handler did not answer 2xx           *)

MaxCaptureRetries == 1    \* capture-task redeliveries per behaviour

\* the dispatches that were redeliveries
CaptureRetries == {d \in dispatches : d.by = "app_worker" /\ d.attempt > 1}

\* the last /scrape_session invocation for task i ended with an exception, and
\* the task is delivered to the handler again
RedeliverScrape ==
    \E i \in 1..Len(tasks) :
        /\ tasks[i].url = WORKER_URL
        /\ tasks[i].deliveries \in 1..(MaxDeliveries - 1)
        /\ Cardinality(CaptureRetries) < MaxCaptureRetries
        /\ \E d \in dispatches :
              /\ d.by = "app_worker" /\ d.task = i
              /\ d.attempt = tasks[i].deliveries
              /\ d.outcome = "raised"
        /\ ScrapeTask(i)

NextRetry ==
    \/ Next
    \/ RedeliverScrape

SpecRetry == Init /\ [][NextRetry]_vars

-----------------------------------------------------------------------------
(* The file queue: daily_scheduler.py writes master_queue.csv, worker.py     *)
(* works through it.  A row of the file is [EventId, SessionId, ShowDate,    *)
(* ScrapeTriggerTime, Status]; its index in the file is its DataFrame index  *)

\* master_queue.csv as worker.py finds it: the day's shows, sorted by
\* ScrapeTriggerTime (a naive local time), every Status PENDING
QueueFileOnDisk ==
    [k \in 1..NumQueueRows |->
        [EventId |-> "ET00452447", SessionId |-> k, ShowDate |-> FirstDate,
         ScrapeTriggerTime |-> ClockSeq[k], Status |-> "PENDING"]]

\* a call parser.parse_schedule_to_df(*args): Python raises TypeError unless all
\* three positional parameters of the definition (parser.py line 5) are given
CallParseSchedule(args) ==
    IF Len(args) # 3 THEN [raised |-> TRUE, value |-> <<>>]
    ELSE [raised |-> FALSE, value |-> parse_schedule_to_df(args[1], args[2], args[3])]

RECURSIVE SortByTrigger(_)
\* final_df.sort_values(by='ScrapeTriggerTime'): insertion of the head into the
\* sorted tail
SortByTrigger(rows) ==
    IF rows = <<>> THEN <<>>
    ELSE LET rest   == SortByTrigger(Tail(rows))
             before == SelectSeq(rest, LAMBDA r :
                          Later(Head(rows).ScrapeTriggerTime, r.ScrapeTriggerTime))
             after  == SelectSeq(rest, LAMBDA r :
                          ~Later(Head(rows).ScrapeTriggerTime, r.ScrapeTriggerTime))
         IN before \o << Head(rows) >> \o after

\* daily_scheduler.main, lines 46-86, for --event event and --date date.  Line 62
\* calls parser.parse_schedule_to_df with two arguments: the first city whose
\* fetch returns a document ends main with that call's TypeError, before line 80
\* writes the file.  raised: main ended so; written: the rows written to
\* master_queue.csv, <<>> when it is not written
daily_scheduler_main(event, date, fetched) ==
    LET call(c) == CallParseSchedule(<< FetchedDoc(event, c, date), event >>)
        rows    == Flatten([c \in 1..NumCities |->
                              IF fetched[c] THEN call(c).value ELSE <<>>])
    IN
    IF \E c \in Cities : fetched[c] /\ call(c).raised
    THEN [raised |-> TRUE, written |-> <<>>]
    ELSE [raised |-> FALSE,
          written |-> SortByTrigger(
              [j \in 1..Len(rows) |->
                  [SessionId |-> rows[j].SessionId, ShowDate |-> rows[j].ShowDate,
                   ScrapeTriggerTime |-> rows[j].ScrapeTriggerTime,
                   Status |-> rows[j].Status]])]

\* one run of daily_scheduler.py
DailyScheduler ==
    /\ \E event \in EventIds, date \in CampaignDates, fetched \in [Cities -> BOOLEAN] :
         \E r \in {daily_scheduler_main(event, date, fetched)} :
            queueFile' = (IF r.written = <<>> THEN queueFile ELSE r.written)
    /\ UNCHANGED <<cloudVars, workers, batchVars, pureCall, docShape>>

\* a faulty line 25 that leaves the trigger time out of the mask
PendingWhenever(df, now) ==
    SelectIdx([i \in 1..Len(df) |-> df[i].Status = "PENDING"], 1, Len(df))

\* worker.py line 25: the rows a run picks up
DueAndPending(df, now) ==
    SelectIdx([i \in 1..Len(df) |->
                  df[i].Status = "PENDING" /\ ~Later(df[i].ScrapeTriggerTime, now)],
              1, Len(df))

\* worker.py lines 11-33: a run starts; it reads the file once and selects its
\* pending_tasks.  With no file, or nothing due, it returns at once
StartWorker ==
    /\ Len(workers) < MaxWorkerRuns
    /\ workers' = Append(workers,
          IF queueFile = <<>>
          THEN [df |-> <<>>, current_time |-> Now, pending_tasks |-> <<>>, todo |-> <<>>]
          ELSE [df |-> queueFile, current_time |-> Now,
                pending_tasks |-> DueAndPending(queueFile, Now),
                todo |-> DueAndPending(queueFile, Now)])
    /\ UNCHANGED <<cloudVars, queueFile, batchVars, pureCall, docShape>>

\* worker.py line 50 calls the coroutine function capture_seat_layout without
\* awaiting it: `success` is a coroutine object, which is truthy, and no capture
\* runs.  The value is what line 52 tests
CaptureNotAwaited == "coroutine"

Truthy(v) == v \in {"True", "coroutine"}

\* worker.py lines 48-78 on one row.  image: what raw_image_path holds; raises: an
\* exception is raised inside the try (by cv2, open or json.dump)
WorkerResult(image, raises) ==
    LET success == CaptureNotAwaited
        call    == CallAnalyzeSeats(<< image, "proc_image_path" >>)
    IN
    IF ~Truthy(success)
    THEN [Status |-> "FAILED_CAPTURE", analyzed |-> FALSE, stats |-> <<>>,
          outcome |-> "done"]
    ELSE IF call.raised \/ raises
    THEN [Status |-> "ERROR", analyzed |-> TRUE, stats |-> <<>>, outcome |-> "error"]
    ELSE [Status |-> "COMPLETED", analyzed |-> TRUE, stats |-> call.value,
          outcome |-> "done"]

\* the loop ends on the first task whose processing raised
StopAtFirstError(todo, r) == IF r.outcome = "error" THEN <<>> ELSE Tail(todo)

\* worker.py lines 36 and 76-84: the except clause ends inside the loop body, so
\* whatever the result r of the task, the for loop goes on to the next row of
\* pending_tasks
RemainingTasks(todo, r) == Tail(todo)

\* worker.py lines 36-84: run w processes its next task and rewrites the file
\* from its own DataFrame (line 81)
ProcessTask ==
    \E w \in 1..Len(workers), image \in Screenshots, raises \in BOOLEAN :
      /\ workers[w].todo # <<>>
      /\ \E r \in {WorkerResult(image, raises)} :
          \E df \in {[workers[w].df EXCEPT ![Head(workers[w].todo)].Status = r.Status]} :
            /\ workers' = [workers EXCEPT ![w].df = df,
                                          ![w].todo = RemainingTasks(@, r)]
            /\ queueFile' = df
            /\ dispatches' = dispatches \cup
                  {[by |-> "worker", task |-> Head(workers[w].todo), attempt |-> w,
                    show |-> <<df[Head(workers[w].todo)].EventId, df[Head(workers[w].todo)].SessionId,
                               df[Head(workers[w].todo)].ShowDate>>,
                    capture |-> CaptureNotAwaited,
                    decodable |-> image.decodable,
                    outcome |-> r.outcome, Status |-> r.Status,
                    analyzed |-> r.analyzed, stats |-> r.stats, streamed |-> <<>>]}
      /\ UNCHANGED <<clock, boots, tasks, bg, runs, sink, tmpFiles, batchVars, pureCall, docShape>>

InitQueue ==
    /\ clock = 1
    /\ boots = 0
    /\ tasks = <<>>
    /\ bg = <<>>
    /\ runs = <<>>
    /\ dispatches = {}
    /\ sink = <<>>
    /\ tmpFiles = {}
    /\ queueFile \in {<<>>, QueueFileOnDisk}
    /\ workers = <<>>
    /\ pipelines = <<>>
    /\ batchFiles = {}
    /\ pureCall = NoCall
    /\ docShape = AllSchedules

NextQueue ==
    \/ DailyScheduler
    \/ StartWorker
    \/ ProcessTask
    \/ Tick

SpecQueue == InitQueue /\ [][NextQueue]_vars

\* the process of run w ends while it is on its next task, before line 81 of
\* that pass: by a signal, or by an exception of lines 40-46, which stand
\* outside the try (os.makedirs, line 42).  The file is as the last pass left it
CrashInTask ==
    \E w \in 1..Len(workers) :
        /\ workers[w].todo # <<>>
        /\ workers' = [workers EXCEPT ![w].todo = <<>>]
        /\ UNCHANGED <<cloudVars, queueFile, batchVars, pureCall, docShape>>

\* the process of run w ends inside df.to_csv(QUEUE_FILE) of line 81: to_csv
\* opens the file for writing, which empties it, and writes the rows in order,
\* so the file is left with the first n rows, n less than their number
CrashInWrite ==
    \E w \in 1..Len(workers), image \in Screenshots, raises \in BOOLEAN :
      /\ workers[w].todo # <<>>
      /\ \E r \in {WorkerResult(image, raises)} :
          \E df \in {[workers[w].df EXCEPT ![Head(workers[w].todo)].Status = r.Status]} :
            /\ workers' = [workers EXCEPT ![w].df = df, ![w].todo = <<>>]
            /\ \E n \in 0..(Len(df) - 1) : queueFile' = SubSeq(df, 1, n)
      /\ UNCHANGED <<cloudVars, batchVars, pureCall, docShape>>

NextCrash ==
    \/ StartWorker
    \/ ProcessTask
    \/ CrashInTask
    \/ CrashInWrite
    \/ Tick

SpecCrash == InitQueue /\ [][NextCrash]_vars

-----------------------------------------------------------------------------
(* The batch pipelines: main.py (command line) and worker_api.py             *)
(* (run_analytics_pipeline behind /process).  Both fetch and parse one       *)
(* city's schedule, process the first `limit` shows in a loop, and upload    *)
(* what the loop collected as one CSV file                                   *)

MaxPipelines == 2     \* pipeline runs per behaviour
MaxLimit == 2         \* the largest --limit / limit

Programs == {"main", "worker_api"}

\* df.head(limit)
Head_(df, limit) == SubSeq(df, 1, IF limit < Len(df) THEN limit ELSE Len(df))

\* asyncio.run(coro) at worker_api.py line 173: run_analytics_pipeline is a
\* coroutine awaited by the /process handler, so an event loop is running in the
\* thread and asyncio.run raises RuntimeError without running coro
AsyncioRun(loopRunning, result) ==
    IF loopRunning THEN [raised |-> TRUE, value |-> "none"]
    ELSE [raised |-> FALSE, value |-> result]

\* the screenshot file when no capture has written to it: the empty file
\* NamedTemporaryFile created
EmptyFile == NoImage

\* the body of the loop on one show `row`, main.py lines 112-148 and worker_api.py
\* lines 163-200.  capture: what the capture coroutine would return if it ran.
\* caught: an exception was raised and caught by the except of the body;
\* appended: the rows appended to batch_data; removed: the temporary file was
\* removed before the body ended.  main.py removes it in a finally clause;
\* worker_api.py removes it at lines 195-196, the last statements of the try,
\* which an exception skips
PipelineShowResult(prog, row, capture) ==
    LET success == IF prog = "main"
                   THEN [raised |-> FALSE, value |-> CaptureNotAwaited]
                   ELSE AsyncioRun(TRUE, capture)
        onError == [caught |-> TRUE, appended |-> <<>>, removed |-> prog = "main"]
    IN
    IF success.raised THEN onError
    ELSE IF ~Truthy(success.value)
    THEN [caught |-> FALSE, appended |-> <<>>, removed |-> TRUE]
    ELSE
      LET call == CallAnalyzeSeats(<< IF success.value = "True" THEN SeatMap
                                      ELSE EmptyFile >>) IN
      IF call.raised THEN onError
      ELSE IF call.value = <<>>
      THEN [caught |-> FALSE, appended |-> <<>>, removed |-> TRUE]
      ELSE [caught |-> FALSE,
            appended |-> << [show |-> row, stats |-> call.value[1],
                             Status |-> "COMPLETED"] >>,
            removed |-> TRUE]

\* what run_analytics_pipeline has returned (worker_api.py lines 147, 154 and
\* 232-240), which the /process handler sends back as the "data" of its answer
\* (lines 117-121); main.py returns nothing.  processed_count is incremented
\* with every append to batch_data (lines 187-188) and nowhere else
NoResponse == [rows_processed |-> 0, rows_uploaded |-> 0, error |-> "none"]

PipelineResponse(prog, batch_data, error) ==
    IF prog = "main" THEN NoResponse
    ELSE IF batch_data = <<>>
    THEN [rows_processed |-> 0, rows_uploaded |-> 0, error |-> error]
    ELSE [rows_processed |-> Len(batch_data), rows_uploaded |-> Len(batch_data),
          error |-> "none"]

\* main.py lines 60-104, worker_api.py lines 135-160: a pipeline starts for one
\* city; with no schedule or no shows it returns at once
StartPipeline ==
    /\ Len(pipelines) < MaxPipelines
    /\ \E prog \in Programs, c \in Cities, event \in EventIds, fetched \in BOOLEAN,
          limit \in 1..MaxLimit :
         \E df \in {IF fetched
                    THEN parse_schedule_to_df(FetchedDoc(event, c, FirstDate), event,
                                              CITY_CONFIG[c].code)
                    ELSE <<>>} :
            pipelines' = Append(pipelines,
                [prog |-> prog, city |-> c, rows |-> Head_(df, limit), done |-> 0,
                 batch_data |-> <<>>, caught |-> <<>>,
                 phase |-> IF df = <<>> THEN "returned" ELSE "loop",
                 csv |-> "none", load |-> "none",
                 response |-> IF df = <<>>
                              THEN PipelineResponse(prog, <<>>,
                                      IF fetched THEN "No shows in schedule"
                                      ELSE "No schedule data")
                              ELSE NoResponse])
    /\ UNCHANGED <<cloudVars, fileVars, batchFiles, pureCall, docShape>>

\* one pass of the loop of pipeline p over its next show
PipelineShow ==
    \E p \in 1..Len(pipelines), capture \in {"True", "False"} :
        /\ pipelines[p].phase = "loop"
        /\ pipelines[p].done < Len(pipelines[p].rows)
        /\ \E r \in {PipelineShowResult(pipelines[p].prog,
                                         pipelines[p].rows[pipelines[p].done + 1],
                                         capture)},
              f \in {NamedTemporaryFile(pipelines[p].prog, p, pipelines[p].done + 1)} :
            /\ pipelines' = [pipelines EXCEPT
                     ![p].done = @ + 1,
                     ![p].batch_data = @ \o r.appended,
                     ![p].caught = Append(@, r.caught)]
            /\ tmpFiles' = (tmpFiles \cup {f}) \ (IF r.removed THEN {f} ELSE {})
        /\ UNCHANGED <<clock, boots, tasks, bg, runs, dispatches, sink, fileVars, batchFiles, pureCall, docShape>>

\* what bq.load_csv(file) does (bq_client.py lines 104-143): returns at once
\* when the handler has no client, loads the rows, or catches the load's
\* exception and prints it.  It returns None in all three cases
LoadOutcomes == {"no_client", "loaded", "error"}

\* the name of the CSV file of pipeline p: BATCH_FILE in main.py, a name with
\* the city and the time in worker_api.py
BatchFileOf(p) ==
    IF pipelines[p].prog = "main" THEN "current_batch_data.csv" ELSE <<"batch", p>>

\* main.py lines 162-166, worker_api.py lines 224-228: after load_csv returns, the
\* file is removed if it exists, whatever load_csv did
RemovedAfterLoad(load) == TRUE

\* main.py lines 151-169, worker_api.py lines 203-240: after the loop, a
\* non-empty batch_data is written to the CSV file, handed to load_csv, and the
\* file is removed; then the pipeline returns
PipelineUpload ==
    \E p \in 1..Len(pipelines) :
        /\ pipelines[p].phase = "loop"
        /\ pipelines[p].done = Len(pipelines[p].rows)
        /\ \E load \in (IF pipelines[p].batch_data = <<>> THEN {"none"} ELSE LoadOutcomes) :
            /\ pipelines' = [pipelines EXCEPT
                     ![p].phase = "returned",
                     ![p].csv = IF pipelines[p].batch_data = <<>> THEN "none"
                                ELSE IF RemovedAfterLoad(load) THEN "removed"
                                ELSE "kept",
                     ![p].load = load,
                     ![p].response = PipelineResponse(pipelines[p].prog,
                                        pipelines[p].batch_data,
                                        "No valid data collected")]
            /\ batchFiles' =
                  IF pipelines[p].batch_data = <<>> THEN batchFiles
                  ELSE IF RemovedAfterLoad(load) THEN batchFiles \ {BatchFileOf(p)}
                  ELSE batchFiles \cup {BatchFileOf(p)}
            /\ sink' = IF load = "loaded" THEN sink \o pipelines[p].batch_data ELSE sink
        /\ UNCHANGED <<clock, boots, tasks, bg, runs, dispatches, tmpFiles, fileVars, pureCall, docShape>>

NextBatch ==
    \/ StartPipeline
    \/ PipelineShow
    \/ PipelineUpload

SpecBatch == Init /\ [][NextBatch]_vars

-----------------------------------------------------------------------------
(* The /process endpoint of worker_api.py: the handler that decodes the      *)
(* request, checks it and awaits run_analytics_pipeline                      *)

MaxRequests == 2      \* requests to /process per behaviour

\* the bodies posted to /process.  message: "absent" for a body without the
\* key, "null" for {"message": null}, "no_data" for a message without data,
\* "empty_data" for data "", "not_base64" and "not_json" for data that
\* b64decode or json.loads refuse, "data" for an encoded payload; city and
\* event_id "absent" for a payload without the key
Envelopes ==
    {[message |-> k, city |-> "absent", event_id |-> "absent", limit |-> 1] :
        k \in {"absent", "null", "no_data", "empty_data", "not_base64", "not_json"}}
    \cup
    {[message |-> "data", city |-> c, event_id |-> e, limit |-> l] :
        c \in {"AHMEDABAD", "MUMBAI", "PUNE", "absent"},
        e \in {"ET00452447", "absent"}, l \in 1..MaxLimit}

\* the index in CITY_CONFIG of a configured city, 0 for any other name
CityIndex(name) ==
    IF \E c \in 1..Len(CITY_CONFIG) : CITY_CONFIG[c].city = name
    THEN CHOOSE c \in 1..Len(CITY_CONFIG) : CITY_CONFIG[c].city = name
    ELSE 0

\* worker_api.py lines 62-128 up to the call of run_analytics_pipeline.  http:
\* 400 from the except ValueError clause (lines 123-125), 500 from the except
\* Exception clause (lines 126-128), 200 when the pipeline is awaited.
\*   line 67: envelope.get("message", {}).get("data"): the default {} stands in
\*     for a missing key only, so a null message raises AttributeError;
\*   lines 68-69: ValueError when the data is missing or empty;
\*   lines 72-73: binascii.Error and json.JSONDecodeError are ValueErrors;
\*   line 78: a missing city is "MUMBAI";
\*   lines 83-84: ValueError without event_id; lines 95-96: ValueError when the
\*     city is not configured
process_task(envelope) ==
    LET city == IF envelope.city = "absent" THEN "MUMBAI" ELSE envelope.city IN
    IF envelope.message = "null"
    THEN [http |-> 500, detail |-> "AttributeError", city |-> 0]
    ELSE IF envelope.message \in {"absent", "no_data", "empty_data"}
    THEN [http |-> 400, detail |-> "No message data in request", city |-> 0]
    ELSE IF envelope.message \in {"not_base64", "not_json"}
    THEN [http |-> 400, detail |-> "decode error", city |-> 0]
    ELSE IF envelope.event_id = "absent"
    THEN [http |-> 400, detail |-> "event_id is required", city |-> 0]
    ELSE IF CityIndex(city) = 0
    THEN [http |-> 400, detail |-> "City not configured", city |-> 0]
    ELSE [http |-> 200, detail |-> "none", city |-> CityIndex(city)]

InitProcess ==
    /\ clock = 1
    /\ boots = 0
    /\ tasks = <<>>
    /\ bg = <<>>
    /\ runs = <<>>
    /\ dispatches = {}
    /\ sink = <<>>
    /\ tmpFiles = {}
    /\ queueFile = <<>>
    /\ workers = <<>>
    /\ pipelines = <<>>
    /\ batchFiles = {}
    /\ pureCall = [fn |-> "process_task", answered |-> <<>>]
    /\ docShape = [c \in 1..NumCities |-> "schedule"]

\* a request to /process: the handler answers it at once with 400 or 500, or
\* starts the pipeline for its city (lines 99-113), which fetches the schedule
\* (line 137) and goes on with PipelineShow and PipelineUpload.  fetch: the
\* schedule was asked for; pipeline: the index of the pipeline started, 0 for
\* none
ProcessRequest ==
    /\ pureCall.fn = "process_task"
    /\ Len(pureCall.answered) < MaxRequests
    /\ \E envelope \in Envelopes, fetched \in BOOLEAN :
         \E r \in {process_task(envelope)} :
            IF r.http # 200
            THEN /\ pureCall' = [pureCall EXCEPT !.answered =
                        Append(@, [envelope |-> envelope, http |-> r.http,
                                   fetch |-> FALSE, pipeline |-> 0])]
                 /\ UNCHANGED pipelines
            ELSE \E df \in {IF fetched
                             THEN parse_schedule_to_df(
                                     FetchedDoc(envelope.event_id, r.city, FirstDate),
                                     envelope.event_id, CITY_CONFIG[r.city].code)
                             ELSE <<>>} :
                 /\ pureCall' = [pureCall EXCEPT !.answered =
                        Append(@, [envelope |-> envelope, http |-> r.http,
                                   fetch |-> TRUE, pipeline |-> Len(pipelines) + 1])]
                 /\ pipelines' = Append(pipelines,
                        [prog |-> "worker_api", city |-> r.city,
                         rows |-> Head_(df, envelope.limit), done |-> 0,
                         batch_data |-> <<>>, caught |-> <<>>,
                         phase |-> IF df = <<>> THEN "returned" ELSE "loop",
                         csv |-> "none", load |-> "none",
                         response |-> IF df = <<>>
                                      THEN PipelineResponse("worker_api", <<>>,
                                              IF fetched THEN "No shows in schedule"
                                              ELSE "No schedule data")
                                      ELSE NoResponse])
    /\ UNCHANGED <<cloudVars, fileVars, batchFiles, docShape>>

NextProcess ==
    \/ ProcessRequest
    \/ PipelineShow
    \/ PipelineUpload

SpecProcess == InitProcess /\ [][NextProcess]_vars

-----------------------------------------------------------------------------
(* The last step of /scrape_session on its own (app_worker.py lines 24-29),  *)
(* entered with the stats of an analysed screenshot.  No request of this     *)
(* build gets there: line 23 raises TypeError (see ScrapeResult), so the     *)
(* step is exercised here from the states in which it has stats to stream    *)

\* the stats the analyzer returns for the images
AnalyzedStats ==
    {analyze_seats(image, "processed")[1] : image \in {i \in Images : i.decodable}}

\* the request bodies: the rows of the cities' schedules
ScrapeBodies ==
    UNION {Range(parse_schedule_to_df(FetchedDoc("ET00452447", c, date),
                                      "ET00452447", CITY_CONFIG[c].slug)) :
              c \in Cities, date \in CampaignDates}

InitStream ==
    /\ clock = 1
    /\ boots = 0
    /\ tasks = <<>>
    /\ bg = <<>>
    /\ runs = <<>>
    /\ dispatches = {}
    /\ sink = <<>>
    /\ tmpFiles = {}
    /\ queueFile = <<>>
    /\ workers = <<>>
    /\ pipelines = <<>>
    /\ batchFiles = {}
    /\ pureCall \in [fn : {"scrape"}, data : ScrapeBodies, stats : AnalyzedStats,
                      answered : {FALSE}, outcome : {"none"}, streamed : {<<>>}]
    /\ docShape = [c \in 1..NumCities |-> "schedule"]

\* lines 25-29 run and the handler answers
StreamStep ==
    /\ pureCall.fn = "scrape"
    /\ ~pureCall.answered
    /\ \E sinkDoes \in SinkOutcomes :
         \E r \in {StreamAndAnswer(pureCall.data, pureCall.stats, sinkDoes)} :
            /\ pureCall' = [pureCall EXCEPT !.answered = TRUE,
                                            !.outcome = r.outcome,
                                            !.streamed = r.streamed]
            /\ sink' = sink \o r.stored
    /\ UNCHANGED <<clock, boots, tasks, bg, runs, dispatches, tmpFiles, fileVars,
                   batchVars, docShape>>

NextStream == StreamStep

SpecStream == InitStream /\ [][NextStream]_vars

-----------------------------------------------------------------------------
(* The upload step of the batch pipelines on its own (main.py lines 150-169, *)
(* worker_api.py lines 202-240), entered with the rows a loop has collected. *)
(* The loops of this build collect nothing: every show ends in the except    *)
(* clause (see PipelineShowResult), so the step is exercised here from the   *)
(* states in which it has rows to upload                                     *)

\* the bq_row of lines 125-131 for a show whose screenshot was analyzed
CollectedRow(row) ==
    [show |-> row, stats |-> analyze_seats(SeatMap, "processed")[1],
     Status |-> "COMPLETED"]

\* the shows of city c the loop went over
UploadShows(c) ==
    parse_schedule_to_df(FetchedDoc("ET00452447", c, FirstDate),
                         "ET00452447", CITY_CONFIG[c].code)

\* the batch_data a loop over the first `limit` shows of city c can hold at its
\* end: the rows of the shows, in order, that were analyzed; here, not empty
CollectedBatches(c) ==
    LET df == UploadShows(c)
    IN {[k \in 1..n |-> CollectedRow(df[k])] : n \in 1..Len(df)}
       \cup {<< CollectedRow(df[k]) >> : k \in 1..Len(df)}

\* a pipeline at the end of its loop
PipelinesAtUpload ==
    UNION {{[prog |-> prog, city |-> c, rows |-> UploadShows(c),
             done |-> Len(UploadShows(c)), batch_data |-> b,
             caught |-> [k \in 1..Len(UploadShows(c)) |-> FALSE], phase |-> "loop", csv |-> "none", load |-> "none",
             response |-> NoResponse] :
               prog \in Programs, b \in CollectedBatches(c)} : c \in Cities}

InitUpload ==
    /\ clock = 1
    /\ boots = 0
    /\ tasks = <<>>
    /\ bg = <<>>
    /\ runs = <<>>
    /\ dispatches = {}
    /\ sink = <<>>
    /\ tmpFiles = {}
    /\ queueFile = <<>>
    /\ workers = <<>>
    /\ pipelines \in [1..MaxPipelines -> PipelinesAtUpload]
    /\ batchFiles = {}
    /\ pureCall = NoCall
    /\ docShape = AllSchedules

NextUpload == PipelineUpload

SpecUpload == InitUpload /\ [][NextUpload]_vars

-----------------------------------------------------------------------------
(* parser.parse_schedule_to_df on its own, called on a document with one     *)
(* showtime leaf                                                             *)

\* showDateCode of the leaf: the turn of a month and of a year, the day after a
\* leap day, and a date that does not exist
ParseDates ==
    {MkDate(2025, 12, 30), MkDate(2025, 12, 31), MkDate(2026, 1, 1),
     MkDate(2024, 3, 1), MkDate(2025, 3, 1), MkDate(2025, 2, 30)}

\* showTimeCode of the leaf: around the lead offset, around 05:30 + lead, day
\* times, and a code that is no time
ParseTimes == {0, 10, 14, 15, 16, 530, 544, 545, 546, 1200, 1845, 2359, 2460}

\* the document fetch_schedule returns when the venue lists one show
DocOfLeaf(date_code, time_code) ==
    [hasData |-> TRUE,
     showtimeWidgets |-> <<
       [type |-> "groupList", data |-> <<
          [type |-> "venueGroup", data |-> <<
             [type |-> "venue-card", venueCode |-> "AHD",
              showtimes |-> << [sessionId |-> 11, showDateCode |-> date_code,
                                showTimeCode |-> time_code] >>]
          >>]
       >>]
     >>]

InitParse ==
    /\ clock = 1
    /\ boots = 0
    /\ tasks = <<>>
    /\ bg = <<>>
    /\ runs = <<>>
    /\ dispatches = {}
    /\ sink = <<>>
    /\ tmpFiles = {}
    /\ queueFile = <<>>
    /\ workers = <<>>
    /\ pipelines = <<>>
    /\ batchFiles = {}
    /\ pureCall \in {[fn |-> "parse_schedule_to_df",
                        arg |-> [date |-> d, time |-> t],
                        returned |-> FALSE, value |-> <<>>] :
                          d \in ParseDates, t \in ParseTimes}
    /\ docShape = AllSchedules

\* the call returns its DataFrame
ParseCall ==
    /\ pureCall.fn = "parse_schedule_to_df"
    /\ ~pureCall.returned
    /\ pureCall' = [pureCall EXCEPT
          !.returned = TRUE,
          !.value = parse_schedule_to_df(DocOfLeaf(pureCall.arg.date, pureCall.arg.time),
                                         "ET00452447", "AHD")]
    /\ UNCHANGED <<cloudVars, fileVars, batchVars, docShape>>

NextParse == ParseCall

SpecParse == InitParse /\ [][NextParse]_vars

-----------------------------------------------------------------------------
(* parser.parse_schedule_to_df on its own, called on documents of every      *)
(* shape: with and without a data section, with widgets, groups and venues   *)
(* of the expected and of other types, with leaves whose codes are valid,    *)
(* absent (-1) or unparseable                                                *)

MaxLeaves == 2        \* showtimes of one venue
MaxVenues == 2        \* venues of the document's group

\* (showDateCode, showTimeCode) of a leaf: two valid pairs, an absent date, an
\* absent time, a date that does not exist, a time that does not exist
LeafCodes ==
    {[d |-> FirstDate, t |-> 1845], [d |-> FirstDate, t |-> 10],
     [d |-> -1, t |-> 1845], [d |-> FirstDate, t |-> -1],
     [d |-> MkDate(2025, 2, 30), t |-> 1845], [d |-> FirstDate, t |-> 2460]}

LeafSeqs == UNION {[1..n -> LeafCodes] : n \in 0..MaxLeaves}

WidgetTypes == {"groupList", "other"}
GroupTypes == {"venueGroup", "other"}
VenueTypes == {"venue-card", "other"}

\* the v-th venue of the group: its leaves are numbered 10 * v + j
VenueOf(v, type, codes) ==
    [type |-> type, venueCode |-> <<"venue", v>>,
     showtimes |-> [j \in 1..Len(codes) |->
                      [sessionId |-> 10 * v + j, showDateCode |-> codes[j].d,
                       showTimeCode |-> codes[j].t]]]

\* the documents: one without a data section, one with no widgets, and those
\* with one widget holding one group holding 1..MaxVenues venues
Documents ==
    {[hasData |-> FALSE, showtimeWidgets |-> <<>>],
     [hasData |-> TRUE, showtimeWidgets |-> <<>>]}
    \cup
    {[hasData |-> TRUE,
      showtimeWidgets |-> <<
        [type |-> tw, data |-> <<
           [type |-> tg,
            data |-> [v \in 1..Len(vs) |-> VenueOf(v, vs[v].type, vs[v].codes)]] >>] >>] :
        tw \in WidgetTypes, tg \in GroupTypes,
        vs \in UNION {[1..n -> [type : VenueTypes, codes : LeafSeqs]] : n \in 1..MaxVenues}}

InitParseDoc ==
    /\ clock = 1
    /\ boots = 0
    /\ tasks = <<>>
    /\ bg = <<>>
    /\ runs = <<>>
    /\ dispatches = {}
    /\ sink = <<>>
    /\ tmpFiles = {}
    /\ queueFile = <<>>
    /\ workers = <<>>
    /\ pipelines = <<>>
    /\ batchFiles = {}
    /\ pureCall \in {[fn |-> "parse_schedule_to_df(doc)", arg |-> doc,
                        returned |-> FALSE, value |-> <<>>] : doc \in Documents}
    /\ docShape = AllSchedules

\* the call returns its DataFrame
ParseDocCall ==
    /\ pureCall.fn = "parse_schedule_to_df(doc)"
    /\ ~pureCall.returned
    /\ pureCall' = [pureCall EXCEPT
          !.returned = TRUE,
          !.value = parse_schedule_to_df(pureCall.arg, "ET00452447", "AHD")]
    /\ UNCHANGED <<cloudVars, fileVars, batchVars, docShape>>

NextParseDoc == ParseDocCall

SpecParseDoc == InitParseDoc /\ [][NextParseDoc]_vars

-----------------------------------------------------------------------------
(* Properties of the scheduler (app_scheduler.run_logic)                     *)

\* the queue positions of the tasks invocation r created for url
TasksOf(r, url) ==
    SelectIdx([i \in 1..Len(tasks) |-> tasks[i].by = r /\ tasks[i].url = url],
              1, Len(tasks))

\* the self-invocation tasks invocation r created, as (payload, time) pairs
SelfTaskContents(r) ==
    {[payload |-> tasks[i].payload, at |-> tasks[i].at] :
        i \in Range(TasksOf(r, SCHEDULER_URL))}

\* C1: an invocation with target_date < end_date enqueues exactly one
\* self-invocation task, scheduled at target_date + 1 day at the hour and minute
\* of run_time, whose payload is the received cursor with only target_date
\* replaced by target_date + 1 day; one with target_date = end_date enqueues none
C1_SelfInvocation ==
    \A r \in 1..Len(runs) :
        LET req  == runs[r].req
            self == TasksOf(r, SCHEDULER_URL)
        IN /\ req.target_date < req.end_date =>
                /\ Len(self) = 1
                /\ tasks[self[1]].at =
                      [date |-> NextDay(req.target_date),
                       min  |-> req.run_time.hh * 60 + req.run_time.mm,
                       off  |-> 0]
                /\ tasks[self[1]].payload =
                      [event_id    |-> req.event_id,
                       target_date |-> NextDay(req.target_date),
                       end_date    |-> req.end_date,
                       run_time    |-> req.run_time]
           /\ req.target_date = req.end_date => self = <<>>

\* both cases of C1 have happened: an invocation before end_date that enqueued
\* its successor, and an invocation on end_date
C1_Witness ==
    /\ \E r \in 1..Len(runs) :
          /\ runs[r].req.target_date < runs[r].req.end_date
          /\ TasksOf(r, SCHEDULER_URL) # <<>>
    /\ \E r \in 1..Len(runs) : runs[r].req.target_date = runs[r].req.end_date

RECURSIVE DatesFromTo(_, _)
\* the dates of [a, b], in increasing order
DatesFromTo(a, b) == IF a > b THEN <<>> ELSE << a >> \o DatesFromTo(NextDay(a), b)

\* the invocations of campaign chain ch, in the order they ran
ChainRuns(ch) ==
    LET idx == SelectIdx([r \in 1..Len(runs) |-> runs[r].chain = ch], 1, Len(runs))
    IN [k \in 1..Len(idx) |-> runs[idx[k]]]

\* chain ch has work outstanding: a queued invocation or an undelivered
\* self-invocation task
ChainPending(ch) ==
    \/ \E i \in 1..Len(bg) : bg[i].chain = ch
    \/ \E i \in 1..Len(tasks) :
          tasks[i].chain = ch /\ tasks[i].url = SCHEDULER_URL /\ tasks[i].deliveries = 0

\* the k-th invocation of a chain started with target_date <= end_date works on
\* the k-th date of [target_date, end_date] with the cursor otherwise unchanged,
\* and after the invocation for end_date nothing of the chain is outstanding
ChainAdvancesByOneDay ==
    \A ch \in 1..boots :
        LET R == ChainRuns(ch) IN
        (R # <<>> /\ R[1].req.target_date <= R[1].req.end_date) =>
            LET D == DatesFromTo(R[1].req.target_date, R[1].req.end_date) IN
            /\ Len(R) <= Len(D)
            /\ \A k \in 1..Len(R) :
                  R[k].req = [R[1].req EXCEPT !.target_date = D[k]]
            /\ Len(R) = Len(D) => ~ChainPending(ch)

\* the bootstrap request of chain ch, with target_date <= end_date, is queued
ChainStarted(ch) ==
    \E i \in 1..Len(bg) :
        /\ bg[i].chain = ch /\ bg[i].task = 0
        /\ bg[i].req.target_date <= bg[i].req.end_date

\* chain ch has run once for every date of [target_date, end_date]
ChainComplete(ch) ==
    LET R == ChainRuns(ch) IN
    /\ R # <<>>
    /\ Len(R) = Len(DatesFromTo(R[1].req.target_date, R[1].req.end_date))
    /\ R[Len(R)].req.target_date = R[1].req.end_date

\* C2: when every enqueued self-invocation task is fired once, a chain started
\* with target_date <= end_date advances its cursor by one day per invocation and
\* terminates: one invocation for each date of [target_date, end_date], in
\* increasing order, and then no self-invocation task is pending
C2_ChainTerminates ==
    /\ []ChainAdvancesByOneDay
    /\ \A ch \in 1..MaxBootstraps : ChainStarted(ch) ~> ChainComplete(ch)

\* a chain over all NumDays dates has run to its end
C2_Witness ==
    \E ch \in 1..boots :
        /\ ChainComplete(ch)
        /\ Len(ChainRuns(ch)) = NumDays
        /\ ~ChainPending(ch)

\* the parsed rows of invocation r whose trigger time is after the time it ran at
FutureRows(r) ==
    SelectIdx([j \in 1..Len(runs[r].parsed) |->
                  Later(runs[r].parsed[j].Trigger_Object_UTC, ClockSeq[runs[r].at])],
              1, Len(runs[r].parsed))

\* the payload of a capture task carries the parsed row
Carries(payload, row) ==
    /\ payload.EventId = row.EventId
    /\ payload.VenueCode = row.VenueCode
    /\ payload.SessionId = row.SessionId
    /\ payload.ShowDate = row.ShowDate
    /\ payload.ShowDateTime = row.ShowDateTime
    /\ payload.ScrapeTriggerTime = row.ScrapeTriggerTime
    /\ payload.TicketLink = row.TicketLink
    /\ payload.Status = row.Status

\* C3: the capture tasks an invocation enqueues are, one for one and in order,
\* the parsed rows (of all regions) whose Trigger_Object_UTC is strictly after the
\* current time, each scheduled at that trigger time and carrying that row; a
\* row whose trigger time is the current time or earlier gets no task
C3_CaptureTasks ==
    \A r \in 1..Len(runs) :
        LET T == TasksOf(r, WORKER_URL)
            F == FutureRows(r)
        IN /\ Len(T) = Len(F)
           /\ \A k \in 1..Len(T) :
                 /\ tasks[T[k]].at = runs[r].parsed[F[k]].Trigger_Object_UTC
                 /\ Carries(tasks[T[k]].payload, runs[r].parsed[F[k]])

\* an invocation that parsed a row due later and a row already past, and an
\* invocation that parsed a row whose trigger time is exactly the current time
C3_Witness ==
    /\ \E r \in 1..Len(runs) :
          /\ FutureRows(r) # <<>>
          /\ Len(FutureRows(r)) < Len(runs[r].parsed)
          /\ Len(TasksOf(r, WORKER_URL)) = Len(FutureRows(r))
    /\ \E r \in 1..Len(runs), j \in 1..3 :
          /\ j <= Len(runs[r].parsed)
          /\ runs[r].parsed[j].Trigger_Object_UTC = ClockSeq[runs[r].at]

\* the identity of the show a capture payload names
ShowKey(payload) == <<payload.EventId, payload.SessionId, payload.ShowDate>>

\* C4: over a whole campaign, also when a scheduler task is delivered more than
\* once, at most one capture task is ever enqueued for a show (EventId,
\* SessionId, ShowDate) and at most one dispatch ever processes it
C4_OneCapturePerShow ==
    /\ \A i, j \in 1..Len(tasks) :
          (/\ tasks[i].url = WORKER_URL /\ tasks[j].url = WORKER_URL
           /\ ShowKey(tasks[i].payload) = ShowKey(tasks[j].payload)) => i = j
    /\ \A d, e \in dispatches : d.show = e.show => d = e

\* C6: what an invocation forwards depends on the cursor it received and not on
\* the time it runs at: two invocations that received the same cursor enqueued
\* the same self-invocation task (the same payload at the same time)
C6_CursorOnly ==
    \A r, q \in 1..Len(runs) :
        runs[r].req = runs[q].req => SelfTaskContents(r) = SelfTaskContents(q)

\* the same cursor was received on two different days, and a self-invocation
\* task was enqueued for it
C6_Witness ==
    \E r, q \in 1..Len(runs) :
        /\ runs[r].req = runs[q].req
        /\ ClockSeq[runs[r].at].date # ClockSeq[runs[q].at].date
        /\ SelfTaskContents(r) # {}
        /\ SelfTaskContents(q) # {}

-----------------------------------------------------------------------------
(* Properties of the dispatchers (app_worker.scrape, worker.process_tasks)   *)

StatusRank(status) ==
    CASE status = "PENDING" -> 0
      [] status = "DISPATCHED" -> 1
      [] OTHER -> 2

\* C5: the Status of a row of the queue only moves along PENDING -> DISPATCHED ->
\* {COMPLETED, FAILED_CAPTURE, ERROR}: no step of a scheduler or worker run moves
\* it backward, and a terminal Status is never overwritten or reset to PENDING
C5_StatusMonotonic ==
    [][\A i \in 1..Len(queueFile) :
          i <= Len(queueFile') =>
            /\ StatusRank(queueFile[i].Status) <= StatusRank(queueFile'[i].Status)
            /\ StatusRank(queueFile[i].Status) = 2 =>
                  queueFile'[i].Status = queueFile[i].Status]_vars

\* C7: a dispatch whose capture call reports failure sets Status to
\* FAILED_CAPTURE and stops: the analyzer is not called and nothing is handed to
\* the sink
C7_CaptureFailure ==
    \A d \in dispatches :
        d.capture = "False" =>
            /\ d.Status = "FAILED_CAPTURE"
            /\ ~d.analyzed
            /\ d.streamed = <<>>

\* C8: when the capture counts as succeeded and the analyzer returns no result,
\* nothing is handed to the sink and Status is not set to COMPLETED
C8_NoResultNotCompleted ==
    \A d \in dispatches :
        (Truthy(d.capture) /\ d.analyzed /\ d.outcome \in {"done", "failed"}
            /\ d.stats = <<>>) =>
            /\ d.streamed = <<>>
            /\ d.Status # "COMPLETED"

OccupancyFields == {"total_seats", "filled_sold", "available", "bestseller", "total_unsold"}

\* C9: a dispatch whose capture succeeds with a decodable screenshot sets Status
\* to COMPLETED and hands the sink exactly one record, the show with the five
\* occupancy fields; and every record handed to the sink has Status COMPLETED
\* and the occupancy fields
C9_CompletedToSink ==
    \A d \in dispatches :
        /\ (d.capture = "True" /\ d.decodable) =>
              /\ d.Status = "COMPLETED"
              /\ Len(d.streamed) = 1
        /\ \A k \in 1..Len(d.streamed) :
              /\ d.streamed[k].Status = "COMPLETED"
              /\ OccupancyFields \subseteq DOMAIN d.streamed[k].stats

\* C10: an exception raised inside a dispatch is caught by the dispatcher and
\* recorded as Status ERROR; no exception leaves the dispatcher's entry point
C10_ErrorsCaught ==
    \A d \in dispatches :
        /\ d.outcome # "raised"
        /\ d.capture = "raised" => d.Status = "ERROR"

\* the dispatches of worker.py run w, and the one for row i of its DataFrame
DispatchesOfRun(w) == {d \in dispatches : d.by = "worker" /\ d.attempt = w}

DispatchOfRow(w, i) == {d \in DispatchesOfRun(w) : d.task = i}

\* what worker.py makes of a show on its own: the result for the screenshot and
\* the exception that dispatch d met, whatever happened to the other shows
OwnResult(d) ==
    WorkerResult(IF d.decodable THEN SeatMap ELSE NoImage, d.outcome = "error")

C12_TempFileRemoved == tmpFiles = {}

\* C13: a show's capture is attempted at most once: after a dispatch of the show
\* has ended in failure (capture failure, analysis failure or an exception), no
\* redelivery of its capture task leads to another dispatch of that show
C13_AtMostOneAttempt ==
    \A d, e \in dispatches :
        (/\ d.by = "app_worker" /\ e.by = "app_worker"
         /\ d.show = e.show
         /\ d.outcome \in {"failed", "raised"}) => e.attempt <= d.attempt

\* the capture tasks invocation r created for city c, as (payload, time) pairs
CaptureTasksOf(r, c) ==
    {[payload |-> tasks[i].payload, at |-> tasks[i].at] :
        i \in {j \in Range(TasksOf(r, WORKER_URL)) :
                  tasks[j].payload.City = CITY_CONFIG[c].city}}

\* the capture tasks due for city c from its own schedule document alone: one
\* for each parsed show whose trigger time is after `now`
OwnCaptureTasks(req, c, now) ==
    LET rows == parse_schedule_to_df(FetchedDoc(req.event_id, c, req.target_date),
                                     req.event_id, CITY_CONFIG[c].slug)
    IN {[payload |-> CapturePayload(rows[j], c), at |-> rows[j].Trigger_Object_UTC] :
           j \in {k \in 1..Len(rows) : Later(rows[k].Trigger_Object_UTC, now)}}

\* C14: in an invocation where the fetch for a region fails, that region gets no
\* capture task, every region whose fetch succeeds gets the capture tasks of its
\* own schedule, and the next-day self-invocation is still enqueued when
\* target_date < end_date
C14_FetchFailureSkipsRegion ==
    \A r \in 1..Len(runs) :
        (\E c \in Cities : ~runs[r].fetched[c]) =>
            /\ \A c \in Cities :
                  CaptureTasksOf(r, c) =
                     IF runs[r].fetched[c]
                     THEN OwnCaptureTasks(runs[r].req, c, ClockSeq[runs[r].at])
                     ELSE {}
            /\ runs[r].req.target_date < runs[r].req.end_date =>
                  Len(TasksOf(r, SCHEDULER_URL)) = 1

\* an invocation before end_date in which the fetch of the first region failed
\* and the second region got its capture tasks
C14_Witness ==
    \E r \in 1..Len(runs) :
        /\ ~runs[r].fetched[1]
        /\ runs[r].fetched[2]
        /\ CaptureTasksOf(r, 2) # {}
        /\ runs[r].req.target_date < runs[r].req.end_date
        /\ TasksOf(r, SCHEDULER_URL) # <<>>

\* the create_task calls of step 1 when the cities are gone through in `order`
CaptureCallsInOrder(req, fetched, order, now) ==
    Flatten([k \in 1..NumCities |-> CaptureCallsOfCity(req, fetched, order[k], now)])

\* a sequence of create_task calls as a set of (payload, time) pairs
AsTaskSet(calls) == {[payload |-> calls[k].payload, at |-> calls[k].at] : k \in 1..Len(calls)}

\* C15: for the clock value an invocation ran at, the set of capture tasks it
\* enqueued is the set it would enqueue going through the regions in any other
\* order, and the tasks of a region are those its own fetch and parse give,
\* whatever the fetch of the other regions returned
C15_RegionsIndependent ==
    \A r \in 1..Len(runs) :
        LET req == runs[r].req
            now == ClockSeq[runs[r].at]
        IN /\ \A order \in Permutations(Cities) :
                 AsTaskSet(CaptureCallsInOrder(req, runs[r].fetched, order, now)) =
                    UNION {CaptureTasksOf(r, c) : c \in Cities}
           /\ UNION {CaptureTasksOf(r, c) : c \in Cities} =
                 {[payload |-> tasks[i].payload, at |-> tasks[i].at] :
                     i \in Range(TasksOf(r, WORKER_URL))}
           /\ \A c \in Cities, others \in [Cities -> BOOLEAN] :
                 others[c] = runs[r].fetched[c] =>
                    AsTaskSet(CaptureCallsOfCity(req, others, c, now)) = CaptureTasksOf(r, c)

\* an invocation enqueued capture tasks for two regions
C15_Witness ==
    \E r \in 1..Len(runs) :
        /\ CaptureTasksOf(r, 1) # {}
        /\ CaptureTasksOf(r, 2) # {}

\* C16: every cursor an invocation processes or forwards has target_date <=
\* end_date, the cursor accepted from the bootstrap request included: the queued
\* requests, the requests run_logic ran for, and the payloads of the
\* self-invocation tasks
C16_CursorWithinRange ==
    /\ \A i \in 1..Len(bg) : bg[i].req.target_date <= bg[i].req.end_date
    /\ \A r \in 1..Len(runs) : runs[r].req.target_date <= runs[r].req.end_date
    /\ \A i \in 1..Len(tasks) :
          tasks[i].url = SCHEDULER_URL =>
             tasks[i].payload.target_date <= tasks[i].payload.end_date

\* C17: /process_day answers every accepted request with {status: ok} before
\* its work runs, and the answer stays the same however the work ends: a failed
\* fetch, parse or enqueue inside run_logic is not reflected in it
C17_AcknowledgedBeforeWork ==
    /\ \A i \in 1..Len(bg) : bg[i].response = [status |-> "ok"]
    /\ \A r \in 1..Len(runs) : runs[r].response = [status |-> "ok"]

\* the work of one acknowledged request returned, and the work of another ended
\* with a raised enqueue error after a failed fetch
C17_Witness ==
    /\ \E r \in 1..Len(runs) :
          /\ runs[r].outcome = "raised"
          /\ runs[r].failed
          /\ \E c \in Cities : ~runs[r].fetched[c]
          /\ runs[r].response = [status |-> "ok"]
    /\ \E r \in 1..Len(runs) : runs[r].outcome = "returned"

-----------------------------------------------------------------------------
(* Properties of the parser (parser.parse_schedule_to_df)                    *)

\* the call of the parser has returned a row
Parsed == pureCall.fn = "parse_schedule_to_df" /\ pureCall.returned /\ pureCall.value # <<>>

\* dt.astimezone(zone) for the zone with offset `off` minutes
InZone(dt, off) == [AddMinutes(dt, off - dt.off) EXCEPT !.off = off]

\* C19: for a show with a parseable date and time code, Trigger_Object_UTC is
\* toUTC(localize(ShowDateTime - LeadOffset)) in the zone UTC+05:30, and
\* converted back to that zone it is exactly ShowDateTime - LeadOffset, also
\* when the subtraction or the conversion goes back over midnight
C19_TriggerRoundTrip ==
    Parsed =>
        LET row   == pureCall.value[1]
            naive == Strptime(pureCall.arg.date, pureCall.arg.time)
        IN /\ row.ShowDateTime = Localize(naive)
           /\ row.Trigger_Object_UTC = ToUTC(Localize(AddMinutes(naive, 0 - LeadOffset)))
           /\ row.Trigger_Object_UTC.off = 0
           /\ InZone(row.Trigger_Object_UTC, IstOffset) =
                 AddMinutes(row.ShowDateTime, 0 - LeadOffset)
           /\ InZone(row.Trigger_Object_UTC, IstOffset) = row.ScrapeTriggerTime

\* a show at 00:10 on the first day of a year was parsed: its local trigger
\* and its UTC trigger are on the last day of the year before
C19_Witness ==
    /\ Parsed
    /\ pureCall.arg = [date |-> MkDate(2026, 1, 1), time |-> 10]
    /\ pureCall.value[1].ScrapeTriggerTime.date = MkDate(2025, 12, 31)
    /\ pureCall.value[1].Trigger_Object_UTC.date = MkDate(2025, 12, 31)

\* minute m of date d moved back by k minutes (k at most a day), as (date, minute)
MovedBack(d, m, k) ==
    IF m >= k THEN <<d, m - k>> ELSE <<PrevDay(d), m + 24 * 60 - k>>

\* C20: with the lead offset of 15 minutes a show at local time T has its local
\* trigger at T - 15 minutes and its UTC trigger 5 hours 30 minutes before the
\* local trigger; a show at 18:45 has the local trigger 18:30 and the UTC
\* trigger 13:00 of the same date
C20_TriggerValues ==
    Parsed =>
        LET row   == pureCall.value[1]
            d     == pureCall.arg.date
            T     == (pureCall.arg.time \div 100) * 60 + (pureCall.arg.time % 100)
            local == MovedBack(d, T, 15)
            utc   == MovedBack(local[1], local[2], 5 * 60 + 30)
        IN /\ <<row.ScrapeTriggerTime.date, row.ScrapeTriggerTime.min>> = local
           /\ row.ScrapeTriggerTime.off = 5 * 60 + 30
           /\ <<row.Trigger_Object_UTC.date, row.Trigger_Object_UTC.min>> = utc
           /\ row.Trigger_Object_UTC.off = 0
           /\ pureCall.arg.time = 1845 =>
                 /\ row.ScrapeTriggerTime =
                       [date |-> d, min |-> 18 * 60 + 30, off |-> 5 * 60 + 30]
                 /\ row.Trigger_Object_UTC = [date |-> d, min |-> 13 * 60, off |-> 0]

\* a show at 18:45 was parsed: local trigger 18:30, UTC trigger 13:00
C20_Witness ==
    /\ Parsed
    /\ pureCall.arg.time = 1845
    /\ pureCall.value[1].ScrapeTriggerTime.min = 18 * 60 + 30
    /\ pureCall.value[1].Trigger_Object_UTC.min = 13 * 60
    /\ pureCall.value[1].Trigger_Object_UTC.date = pureCall.arg.date

\* the call of the parser on a document has returned
ParsedDoc == pureCall.fn = "parse_schedule_to_df(doc)" /\ pureCall.returned

\* a leaf whose date code and time code are present and parse
ValidLeaf(leaf) ==
    /\ leaf.showDateCode # -1 /\ leaf.showTimeCode # -1
    /\ ValidDate(leaf.showDateCode)
    /\ leaf.showTimeCode \in {h * 100 + m : h \in 0..23, m \in 0..59}

\* the leaves of a document, in document order, as (widget type, group type,
\* venue type, leaf)
LeavesOf(doc) ==
    IF ~doc.hasData THEN <<>>
    ELSE Flatten([w \in 1..Len(doc.showtimeWidgets) |->
           Flatten([g \in 1..Len(doc.showtimeWidgets[w].data) |->
             Flatten([v \in 1..Len(doc.showtimeWidgets[w].data[g].data) |->
               [j \in 1..Len(doc.showtimeWidgets[w].data[g].data[v].showtimes) |->
                  [widget |-> doc.showtimeWidgets[w].type,
                   group  |-> doc.showtimeWidgets[w].data[g].type,
                   venue  |-> doc.showtimeWidgets[w].data[g].data[v].type,
                   leaf   |-> doc.showtimeWidgets[w].data[g].data[v].showtimes[j]]]])])])

\* the leaf lies under groupList / venueGroup / venue-card
OnPath(l) == l.widget = "groupList" /\ l.group = "venueGroup" /\ l.venue = "venue-card"

\* C21: one row never aborts a parse: on a document whose leaves include some
\* with an absent or unparseable date or time code, the parser returns, with
\* exactly the records of the valid leaves (under the venue-card path), in
\* order; every invalid leaf is dropped
C21_InvalidRowsDropped ==
    ParsedDoc =>
        LET L    == LeavesOf(pureCall.arg)
            keep == SelectIdx([k \in 1..Len(L) |-> OnPath(L[k]) /\ ValidLeaf(L[k].leaf)],
                              1, Len(L))
        IN /\ Len(pureCall.value) = Len(keep)
           /\ \A k \in 1..Len(keep) :
                 /\ pureCall.value[k].SessionId = L[keep[k]].leaf.sessionId
                 /\ pureCall.value[k].ShowDate = L[keep[k]].leaf.showDateCode

\* the parser returned the one record of a venue whose first leaf is invalid and
\* whose second leaf is valid
C21_Witness ==
    /\ ParsedDoc
    /\ Len(pureCall.value) = 1
    /\ \E k \in 1..Len(LeavesOf(pureCall.arg)) :
          /\ k + 1 <= Len(LeavesOf(pureCall.arg))
          /\ OnPath(LeavesOf(pureCall.arg)[k])
          /\ ~ValidLeaf(LeavesOf(pureCall.arg)[k].leaf)
          /\ ValidLeaf(LeavesOf(pureCall.arg)[k + 1].leaf)
          /\ pureCall.value[1].SessionId = LeavesOf(pureCall.arg)[k + 1].leaf.sessionId

\* C22: a document with no matching venue-card leaf (no data section, no
\* widgets, a widget, group or venue of another type, a venue without
\* showtimes) makes the parser return the empty sequence, and an invocation of
\* the scheduler that fetched such a document for a region enqueues no capture
\* task for that region and goes on: the other regions get their tasks and the
\* next-day self-invocation is enqueued when target_date < end_date
C22_EmptyDocument ==
    /\ \A kind \in EmptyDocKinds, c \in Cities, date \in CampaignDates :
          parse_schedule_to_df(DocOfKind(kind, "ET00452447", c, date),
                               "ET00452447", CITY_CONFIG[c].slug) = <<>>
    /\ \A r \in 1..Len(runs) :
          (\E c \in Cities : runs[r].fetched[c] /\ docShape[c] \in EmptyDocKinds) =>
             /\ runs[r].outcome = "returned"
             /\ \A c \in Cities :
                   CaptureTasksOf(r, c) =
                      IF runs[r].fetched[c] /\ docShape[c] = "schedule"
                      THEN OwnCaptureTasks(runs[r].req, c, ClockSeq[runs[r].at])
                      ELSE {}
             /\ runs[r].req.target_date < runs[r].req.end_date =>
                   Len(TasksOf(r, SCHEDULER_URL)) = 1

\* an invocation before end_date fetched a document with a venue of another
\* type for the first region and the schedule of the second, which got its
\* capture tasks
C22_Witness ==
    \E r \in 1..Len(runs) :
        /\ runs[r].fetched[1] /\ docShape[1] = "other_venue"
        /\ runs[r].fetched[2] /\ docShape[2] = "schedule"
        /\ CaptureTasksOf(r, 1) = {}
        /\ CaptureTasksOf(r, 2) # {}
        /\ runs[r].req.target_date < runs[r].req.end_date
        /\ TasksOf(r, SCHEDULER_URL) # <<>>

-----------------------------------------------------------------------------
(* Properties of the analyzer (analyzer.analyze_seats)                       *)

\* the calls of analyze_seats that returned a dictionary
Analyzed == {k \in 1..Len(pureCall.history) : pureCall.history[k].value # <<>>}

\* C23: the analyzer keeps filled_sold + available + bestseller = total_seats
\* after every contour it processes and in the stats it returns, where also
\* total_unsold = available + bestseller; every retained contour is counted in
\* exactly one of the three classes
C23_CountsAddUp ==
    /\ pureCall.counts.filled_sold + pureCall.counts.unsold_available
          + pureCall.counts.unsold_bestseller = pureCall.counts.total_seats
    /\ pureCall.running =>
          pureCall.counts.total_seats =
             Cardinality({j \in 1..pureCall.pos : SeatLike(pureCall.image.contours[j])})
    /\ \A k \in Analyzed :
          LET st == pureCall.history[k].value[1] IN
          /\ st.filled_sold + st.available + st.bestseller = st.total_seats
          /\ st.total_unsold = st.available + st.bestseller

\* the loop is past a bestseller seat whose green count is also over the
\* threshold, and a call has returned stats with seats of all three classes
C23_Witness ==
    /\ pureCall.running
    /\ pureCall.pos = 1
    /\ pureCall.image.contours[1].yellow = 12
    /\ pureCall.image.contours[1].green = 11
    /\ pureCall.counts.unsold_bestseller = 1
    /\ \E k \in Analyzed :
          /\ pureCall.history[k].value[1].filled_sold > 0
          /\ pureCall.history[k].value[1].available > 0
          /\ pureCall.history[k].value[1].bestseller > 0

\* the calls that returned stats for an image of one contour
OneContour == {k \in Analyzed : Len(pureCall.history[k].image.contours) = 1}

\* the class the stats of call k count their only seat in
ClassOf(k) ==
    LET st == pureCall.history[k].value[1] IN
    IF st.bestseller = 1 THEN "bestseller"
    ELSE IF st.available = 1 THEN "available"
    ELSE IF st.filled_sold = 1 THEN "filled_sold"
    ELSE "none"

\* C24: a retained contour with g green and y yellow pixels is a bestseller if
\* y > 10 and y > g, otherwise available if g > 10, otherwise filled/sold; so
\* y = g > 10 gives available, and y <= 10 with g <= 10 gives filled/sold
C24_ClassPrecedence ==
    \A k \in OneContour :
        LET cnt == pureCall.history[k].image.contours[1]
            st  == pureCall.history[k].value[1]
        IN  st.total_seats = 1 =>
              /\ st.bestseller = 1 <=> (cnt.yellow > 10 /\ cnt.yellow > cnt.green)
              /\ st.available = 1 <=>
                    (~(cnt.yellow > 10 /\ cnt.yellow > cnt.green) /\ cnt.green > 10)
              /\ st.filled_sold = 1 <=>
                    (~(cnt.yellow > 10 /\ cnt.yellow > cnt.green) /\ ~(cnt.green > 10))
              /\ (cnt.yellow = cnt.green /\ cnt.green > 10) => ClassOf(k) = "available"
              /\ (cnt.yellow <= 10 /\ cnt.green <= 10) => ClassOf(k) = "filled_sold"

\* a seat with y = g = 11 was counted as available and one with y = g = 10 as
\* filled/sold
C24_Witness ==
    /\ Len(pureCall.history) = 2
    /\ {1, 2} \subseteq OneContour
    /\ pureCall.history[1].image.contours[1].yellow = 11
    /\ pureCall.history[1].image.contours[1].green = 11
    /\ ClassOf(1) = "available"
    /\ pureCall.history[2].image.contours[1].yellow = 10
    /\ pureCall.history[2].image.contours[1].green = 10
    /\ ClassOf(2) = "filled_sold"

\* C25: a contour is retained if and only if its bounding-box area a satisfies
\* 150 <= a <= 3000 and its bounding-box aspect ratio r = width / height
\* satisfies 0.7 <= r <= 1.4, all four bounds inclusive; every other contour is
\* left out of total_seats and of every class count
C25_RetainedInclusive ==
    \A k \in OneContour :
        LET cnt == pureCall.history[k].image.contours[1]
            st  == pureCall.history[k].value[1]
            inclusive == /\ 150 <= cnt.w * cnt.h /\ cnt.w * cnt.h <= 3000
                         /\ 7 * cnt.h <= 10 * cnt.w /\ 10 * cnt.w <= 14 * cnt.h
        IN  /\ inclusive => st.total_seats = 1
            /\ ~inclusive =>
                  /\ st.total_seats = 0
                  /\ st.filled_sold + st.available + st.bestseller = 0

\* the number of qualifying contours of an image that are seats of a class
SeatsOf(image, class) ==
    Cardinality({j \in 1..Len(image.contours) :
                    SeatLike(image.contours[j]) /\ SeatClass(image.contours[j]) = class})

\* C26: for an image whose qualifying contours comprise s sold, g available and
\* y bestseller seats the analyzer returns total_seats = s + g + y,
\* filled_sold = s, available = g, bestseller = y and total_unsold = g + y; for
\* s = 25, g = 10, y = 5 that is 40, 25, 10, 5 and 15
C26_Totals ==
    \A k \in Analyzed :
        LET image == pureCall.history[k].image
            st == pureCall.history[k].value[1]
            sold == SeatsOf(image, "filled_sold")
            green == SeatsOf(image, "available")
            yellow == SeatsOf(image, "bestseller")
        IN  /\ st.total_seats = sold + green + yellow
            /\ st.filled_sold = sold
            /\ st.available = green
            /\ st.bestseller = yellow
            /\ st.total_unsold = green + yellow
            /\ (sold = 25 /\ green = 10 /\ yellow = 5) =>
                  /\ st.total_seats = 40
                  /\ st.filled_sold = 25
                  /\ st.available = 10
                  /\ st.bestseller = 5
                  /\ st.total_unsold = 15

\* the seat map with 25 sold, 10 available and 5 bestseller seats was analysed
C26_Witness ==
    \E k \in Analyzed :
        /\ SeatsOf(pureCall.history[k].image, "filled_sold") = 25
        /\ SeatsOf(pureCall.history[k].image, "available") = 10
        /\ SeatsOf(pureCall.history[k].image, "bestseller") = 5
        /\ pureCall.history[k].value[1].total_seats = 40

-----------------------------------------------------------------------------
(* Properties of the /process endpoint (worker_api.py)                       *)

\* the /process requests that were answered
Answered ==
    {p \in 1..Len(pipelines) :
        pipelines[p].prog = "worker_api" /\ pipelines[p].phase = "returned"}

\* the shows of request p that were captured and analysed: those with a row in
\* batch_data
Succeeded(p) ==
    {k \in 1..Len(pipelines[p].rows) :
        \E j \in 1..Len(pipelines[p].batch_data) :
            pipelines[p].batch_data[j].show = pipelines[p].rows[k]}

\* the rows of request p that are in the sink
InSink(p) ==
    {j \in 1..Len(pipelines[p].batch_data) :
        \E i \in 1..Len(sink) : sink[i] = pipelines[p].batch_data[j]}

-----------------------------------------------------------------------------
(* Properties of the file-queue worker (worker.py)                           *)

\* the rows run w picked up when it read the file
Picked(w) == {workers[w].pending_tasks[k] : k \in 1..Len(workers[w].pending_tasks)}

\* the rows run w has processed
ProcessedBy(w) == {d.task : d \in {e \in dispatches : e.by = "worker" /\ e.attempt = w}}

\* every row a run has processed was due when the run read the clock, and
\* every row it left out was then not PENDING or not yet due
OnlyDuePending ==
    \A w \in 1..Len(workers) :
        /\ ProcessedBy(w) \subseteq Picked(w)
        /\ \A i \in 1..Len(workers[w].df) :
              IF i \in ProcessedBy(w)
              THEN /\ ~Later(workers[w].df[i].ScrapeTriggerTime, workers[w].current_time)
                   /\ ~Later(workers[w].df[i].ScrapeTriggerTime, Now)
                   /\ workers[w].df[i].Status # "PENDING"
              ELSE i \notin Picked(w) =>
                     \/ workers[w].df[i].Status # "PENDING"
                     \/ Later(workers[w].df[i].ScrapeTriggerTime, workers[w].current_time)

\* a step of run w changes, of the rows the run has read, only the Status of
\* the row it processes, and writes every other row to the file as it read it
RowsKept ==
    \A w \in 1..Len(workers) :
        \A i \in 1..Len(workers[w].df) :
            /\ [workers[w].df[i] EXCEPT !.Status = "PENDING"]
                  = [workers'[w].df[i] EXCEPT !.Status = "PENDING"]
            /\ (workers[w].df[i].Status # "PENDING"
                  \/ Later(workers[w].df[i].ScrapeTriggerTime, workers[w].current_time))
                 => /\ workers'[w].df[i] = workers[w].df[i]
                    /\ workers'[w] # workers[w] => queueFile'[i] = workers[w].df[i]

-----------------------------------------------------------------------------
(* The analyzer as a function of the image                                   *)

\* C29: the analyzer is deterministic and stateless: two calls on identical
\* image bytes return identical stats, whatever calls were made before and in
\* whatever order the images are analysed
C29_Stateless ==
    /\ \A k1, k2 \in 1..Len(pureCall.history) :
          pureCall.history[k1].image = pureCall.history[k2].image
             => pureCall.history[k1].value = pureCall.history[k2].value
    /\ \A k \in 1..Len(pureCall.history) :
          pureCall.history[k].value
             = analyze_seats(pureCall.history[k].image, "processed")

\* the seat map was analysed twice, first and after a call that counted seats,
\* with the same stats
C29_Witness ==
    /\ Len(pureCall.history) = 2
    /\ pureCall.history[1].image = SeatMap
    /\ pureCall.history[2].image = SeatMap
    /\ pureCall.history[1].value # <<>>
    /\ pureCall.history[1].value[1].total_seats > 0
    /\ pureCall.history[2].value = pureCall.history[1].value

-----------------------------------------------------------------------------
(* The records of the parser and the leaves of the document                  *)

\* the records returned for the leaf with session id sid
RecordsOf(sid) == {k \in 1..Len(pureCall.value) : pureCall.value[k].SessionId = sid}

\* C30: the parser emits exactly one ShowRecord per leaf that lies under a
\* groupList widget, a venueGroup group and a venue-card venue and has a
\* parseable date and time code, and none for leaves under other type paths;
\* the records are in document (depth-first) order and each has Status PENDING
C30_OneRecordPerLeaf ==
    ParsedDoc =>
        LET L == LeavesOf(pureCall.arg) IN
        /\ \A l \in 1..Len(L) :
              Cardinality(RecordsOf(L[l].leaf.sessionId))
                 = IF OnPath(L[l]) /\ ValidLeaf(L[l].leaf) THEN 1 ELSE 0
        /\ \A k \in 1..Len(pureCall.value) :
              /\ pureCall.value[k].Status = "PENDING"
              /\ \E l \in 1..Len(L) : L[l].leaf.sessionId = pureCall.value[k].SessionId
        /\ \A k1, k2 \in 1..Len(pureCall.value) :
              k1 < k2 =>
                \E l1, l2 \in 1..Len(L) :
                    /\ l1 < l2
                    /\ L[l1].leaf.sessionId = pureCall.value[k1].SessionId
                    /\ L[l2].leaf.sessionId = pureCall.value[k2].SessionId

\* the parser returned the records of two venue-cards with two valid leaves
\* each, one after the other
C30_Witness ==
    /\ ParsedDoc
    /\ Len(pureCall.value) = 4
    /\ Len(LeavesOf(pureCall.arg)) = 4
    /\ \A k \in 1..4 :
          /\ pureCall.value[k].SessionId = LeavesOf(pureCall.arg)[k].leaf.sessionId
          /\ pureCall.value[k].Status = "PENDING"

-----------------------------------------------------------------------------
(* The queue file across the passes of a run, crashes and overlapping runs   *)

\* the file holds, for every task a run has finished, the Status the run gave it
FinishedInFile ==
    \A w \in 1..Len(workers) :
        \A i \in ProcessedBy(w) :
            /\ i <= Len(queueFile)
            /\ queueFile[i].Status = workers[w].df[i].Status

\* a run that starts picks up no task that a run has finished
NotPickedAgain ==
    Len(workers') > Len(workers) =>
        \A w \in 1..Len(workers) :
            \A k \in 1..Len(workers'[Len(workers')].pending_tasks) :
                workers'[Len(workers')].pending_tasks[k] \notin ProcessedBy(w)

\* C31: the queue file is rewritten after every processed task, so at every
\* point of a run the file holds the final Status of every task already
\* finished in this run: a crash while processing task k loses no Status
\* written for tasks 1..k-1, and a later run does not process those tasks again
C31_FinishedTasksKept == [][FinishedInFile' /\ NotPickedAgain]_vars

-----------------------------------------------------------------------------
(* Properties of the checks of /process                                      *)

\* the body carries no message data
NoMessageData(envelope) ==
    envelope.message \in {"absent", "null", "no_data", "empty_data"}

\* the job is one of the three invalid ones
InvalidJob(envelope) ==
    \/ NoMessageData(envelope)
    \/ /\ envelope.message = "data"
       /\ \/ envelope.event_id = "absent"
          \/ envelope.city \notin {"AHMEDABAD", "MUMBAI", "VADODARA", "SURAT",
                                     "RAJKOT", "absent"}

\* C32: /process rejects an invalid job before doing any work: a request with
\* no message data, a missing event_id, or a city that is not configured ends
\* with a 400 error without fetching a schedule, capturing any show or writing
\* to the sink; any other failure ends with a 500 error
C32_InvalidJobRejected ==
    /\ pureCall.fn = "process_task" =>
          \A k \in 1..Len(pureCall.answered) :
              LET a == pureCall.answered[k] IN
              /\ InvalidJob(a.envelope) =>
                    a.http = 400 /\ ~a.fetch /\ a.pipeline = 0
              /\ (~InvalidJob(a.envelope) /\ a.http # 200) => a.http = 500
    /\ pureCall.fn = "process_task" =>
          /\ Len(pipelines) =
                Cardinality({k \in 1..Len(pureCall.answered) :
                                pureCall.answered[k].pipeline # 0})
          /\ sink # <<>> => \E p \in 1..Len(pipelines) : pipelines[p].load = "loaded"

-----------------------------------------------------------------------------
(* The campaign chain when scheduling a show or a region fails                *)

\* invocation r has put its next-day self-invocation on the queue
SelfEnqueued(r) ==
    \E i \in 1..Len(tasks) :
        /\ tasks[i].url = SCHEDULER_URL
        /\ tasks[i].by = r
        /\ tasks[i].payload.target_date = NextDay(runs[r].req.target_date)

\* C33: within a scheduler invocation with target_date < end_date the next-day
\* self-invocation is enqueued even if enqueueing a capture task or parsing a
\* region's schedule raises an error: a failure while scheduling one show or
\* region never stops the campaign chain before end_date
C33_ChainSurvivesFailure ==
    \A r \in 1..Len(runs) :
        (/\ ValidDate(runs[r].req.target_date)
         /\ ValidDate(runs[r].req.end_date)
         /\ runs[r].req.target_date < runs[r].req.end_date
         /\ runs[r].req.run_time.hh \in 0..23
         /\ runs[r].req.run_time.mm \in 0..59)
        => SelfEnqueued(r)

-----------------------------------------------------------------------------
(* The instant of the next-day self-invocation                               *)

\* NextDate at DailyRunTime on the clock of UTC+05:30, the zone of Localize
RunTimeLocal(req) ==
    [date |-> req.target_date, min |-> req.run_time.hh * 60 + req.run_time.mm,
     off |-> IstOffset]

\* invocation r was fired by a self-invocation task, at the task's time
FiredOnTime(r) ==
    /\ runs[r].task # 0
    /\ ~Later(ClockSeq[runs[r].at], tasks[runs[r].task].at)
    /\ ~Later(tasks[runs[r].task].at, ClockSeq[runs[r].at])

\* C34: the next-day self-invocation is scheduled at NextDate at DailyRunTime
\* in the civil timezone (UTC+05:30) the parser uses for show times, so that,
\* when the invocation fires on time, every show of NextDate whose local
\* trigger time is later than DailyRunTime still has a future TriggerTimeUTC
\* and gets a capture task
C34_RunTimeInShowZone ==
    /\ \A i \in 1..Len(tasks) :
          tasks[i].url = SCHEDULER_URL =>
             /\ ~Later(tasks[i].at, RunTimeLocal(tasks[i].payload))
             /\ ~Later(RunTimeLocal(tasks[i].payload), tasks[i].at)
    /\ \A r \in 1..Len(runs) :
          FiredOnTime(r) =>
             \A j \in 1..Len(runs[r].parsed) :
                Later(runs[r].parsed[j].ScrapeTriggerTime, RunTimeLocal(runs[r].req))
                   => \E i \in 1..Len(tasks) :
                         /\ tasks[i].url = WORKER_URL
                         /\ tasks[i].by = r
                         /\ Carries(tasks[i].payload, runs[r].parsed[j])

-----------------------------------------------------------------------------
(* The answer of /scrape_session and the sink                                *)

-----------------------------------------------------------------------------
(* Two runs of the worker on one queue file                                  *)

\* no row of the queue is processed by two runs
ProcessedOnce ==
    \A d1, d2 \in {d \in dispatches : d.by = "worker"} :
        d1.task = d2.task => d1.attempt = d2.attempt

\* C36: when two runs of the file-queue worker overlap in time on the same
\* queue file, no show is captured twice and no Status written by one run is
\* lost or reverted by the other run's rewrite of the queue file
C36_OverlappingRuns ==
    /\ ProcessedOnce
    /\ \A w \in 1..Len(workers) :
          \A i \in ProcessedBy(w) :
              i <= Len(queueFile) =>
                 /\ queueFile[i].Status # "PENDING"
                 /\ queueFile[i].Status = workers[w].df[i].Status

=============================================================================
